---- MODULE Spec2Model ----
(***************************************************************************)
(* Lock-free single-producer/single-consumer ring buffer of exercise 07   *)
(* (exercises/07_lockfree_queue/07_lockfree_queue.c), one action per      *)
(* statement of queue_enqueue and queue_dequeue, with the producer and    *)
(* consumer test threads of the same file as callers.                     *)
(*                                                                         *)
(* Memory model: atomic loads and stores of head and tail are single      *)
(* interleaved steps.  The plain write q->buffer[head] = value is first   *)
(* held in the producer's pending-write list wbuf and reaches memory at   *)
(* an arbitrary later step (Drain); a release store makes every pending   *)
(* write reach memory before the stored cursor does.                      *)
(***************************************************************************)
EXTENDS Integers, Naturals, Sequences, FiniteSets, TLC

\* ---------------------------------------------------------------- bounds
QueueBits == 2          \* log2 of the ring size used in the model
MaxMessages == 5        \* messages sent by the test threads
MaxEnqCalls == 5        \* queue_enqueue calls of an arbitrary caller
MaxDeqCalls == 5        \* queue_dequeue calls of an arbitrary caller
MaxBufferLen == 6       \* elements of buffer[] in the struct layouts computed
MaxAlignBits == 7       \* log2 of the largest ALIGN_HEAD / ALIGN_TAIL tried
MaxThreads == 2         \* worker threads of capstone Variant A
MaxIncrements == 2      \* increments made by each worker
MaxBarrierThreads == 3  \* threads meeting at the barrier
MaxPhases == 2          \* phases each of them runs
MaxBufferSize == 2      \* slots of the bounded buffer
MaxItems == 3           \* items to be produced and consumed
MaxTransfers == 2       \* transfers made by each worker of 05_deadlock
MaxTellers == 2         \* deposit threads, and withdraw threads, of 03_race_condition
MaxTransactions == 1    \* updates made by each of them
MaxQueueSize == 16      \* largest QUEUE_SIZE a build is given
MaxPairCalls == 2       \* calls of each operation made on the pair of queues
MaxSpinThreads == 2     \* workers contending for a spinlock
MaxSpinIterations == 1  \* lock/unlock pairs of each of them
MaxBackoffDoublings == 1 \* doublings from BACKOFF_MIN to BACKOFF_MAX

\* ------------------------------------------------------- program constants
RECURSIVE Pow2(_)
Pow2(n) == IF n = 0 THEN 1 ELSE 2 * Pow2(n - 1)

QUEUE_SIZE == Pow2(QueueBits)
MASK == QUEUE_SIZE - 1
NUM_MESSAGES == MaxMessages

Slots == 0 .. (QUEUE_SIZE - 1)
\* what a read of a never-written int may yield
AnyInt == 0 .. (MaxEnqCalls + MaxMessages)

\* the C operator & on non-negative operands
RECURSIVE BitAnd(_, _)
BitAnd(a, b) ==
    IF a = 0 \/ b = 0 THEN 0
    ELSE (a % 2) * (b % 2) + 2 * BitAnd(a \div 2, b \div 2)

\* ------------------------------------------------------------------ state
VARIABLES
    buffer,        \* q->buffer in memory: <<>> = never written, <<v>> = holds v
    q_head,        \* q->head
    q_tail,        \* q->tail
    wbuf,          \* producer's plain writes not yet in memory: <<slot, value>>
    p_pc,          \* producer position
    p_value,       \* queue_enqueue: parameter value
    p_head,        \* queue_enqueue: local head
    p_next_head,   \* queue_enqueue: local next_head
    p_tail,        \* queue_enqueue: local tail
    p_ret,         \* result of the last queue_enqueue call
    p_i,           \* producer(): loop variable i; the caller's current value
    p_backoff,     \* producer(): backoff, by the branch adaptive_backoff takes
    c_pc,          \* consumer position
    c_tail,        \* queue_dequeue: local tail
    c_head,        \* queue_dequeue: local head
    c_next_tail,   \* queue_dequeue: local next_tail
    c_value,       \* the caller's variable that *value points to: <<>> or <<v>>
    c_ret,         \* result of the last queue_dequeue call
    c_received,    \* consumer(): received
    c_error,       \* consumer(): the exit(1) branch was taken
    c_backoff,     \* consumer(): backoff, by the branch adaptive_backoff takes
    enqueued,      \* values whose enqueue stored head, in order
    dequeued,      \* values whose dequeue stored tail, in order
    p_calls,       \* queue_enqueue calls started
    c_calls,       \* queue_dequeue calls started
    p_writes       \* executions of q->buffer[head] = value

qvars == <<buffer, q_head, q_tail, wbuf>>
pvars == <<p_pc, p_value, p_head, p_next_head, p_tail, p_ret, p_i, p_backoff>>
cvars == <<c_pc, c_tail, c_head, c_next_tail, c_value, c_ret, c_received, c_error,
           c_backoff>>
hvars == <<enqueued, dequeued, p_calls, c_calls, p_writes>>

\* main of exercise 07: the statement main is at
VARIABLE m_pc

\* ------------------------------------------- capstone (08_summary), state
\* start_flag (line 39), shared by the variants
VARIABLE start_flag

\* Variant C: the queue of run_variant_c (line 399) and its pending plain
\* writes; producer (i, head), consumer (i, tail, value, sum), and
\* run_variant_c itself (its position and the sum it observed)
VARIABLES vc_buffer, vc_head, vc_tail, vc_wbuf,
          vc_p_pc, vc_p_i, vc_p_head,
          vc_c_pc, vc_c_i, vc_c_tail, vc_c_value, vc_sum,
          vc_m_pc, vc_observed

vcvars == <<vc_buffer, vc_head, vc_tail, vc_wbuf, vc_p_pc, vc_p_i, vc_p_head,
            vc_c_pc, vc_c_i, vc_c_tail, vc_c_value, vc_sum, vc_m_pc,
            vc_observed>>

\* before run_variant_c is entered
InitC ==
    /\ vc_buffer = [s \in Slots |-> <<>>]
    /\ vc_head = 0 /\ vc_tail = 0 /\ vc_wbuf = <<>>
    /\ vc_p_pc = "nothread" /\ vc_p_i = 0 /\ vc_p_head = 0
    /\ vc_c_pc = "nothread" /\ vc_c_i = 0 /\ vc_c_tail = 0
    /\ vc_c_value = <<>> /\ vc_sum = 0
    /\ vc_m_pc = "m399" /\ vc_observed = 0

\* --------------------------------------------- layout of spsc_queue_t, state
\* the build (elements of buffer, ALIGN_HEAD, ALIGN_TAIL), the member being
\* placed, the first free offset, and the offsets and size computed
VARIABLES l_pc, l_n, l_ah, l_at, l_end, l_off_head, l_off_tail, l_size

lvars == <<l_pc, l_n, l_ah, l_at, l_end, l_off_head, l_off_tail, l_size>>

\* no layout being computed
InitL ==
    /\ l_pc = "none" /\ l_n = 0 /\ l_ah = 0 /\ l_at = 0
    /\ l_end = 0 /\ l_off_head = 0 /\ l_off_tail = 0 /\ l_size = 0

\* Variant A: shared_counter (line 46), the owner of mutex (line 45, 0 when
\* free), the TTAS lock's flag, each worker's position, loop index and the
\* value it loaded in shared_counter++, and the position and loop index of
\* run_variant_a / run_variant_a_ttas
NUM_THREADS == MaxThreads
INCREMENTS == MaxIncrements
Workers == 1 .. NUM_THREADS

VARIABLES shared_counter, mutex, ttas_locked, a_pc, a_i, a_tmp, a_m_pc, a_m_i

avars == <<shared_counter, mutex, ttas_locked, a_pc, a_i, a_tmp, a_m_pc, a_m_i>>

\* before run_variant_a is entered (line 433)
InitA ==
    /\ shared_counter = 0 /\ mutex = 0 /\ ttas_locked = FALSE
    /\ a_pc = [t \in Workers |-> "nothread"]
    /\ a_i = [t \in Workers |-> 0]
    /\ a_tmp = [t \in Workers |-> 0]
    /\ a_m_pc = "a144" /\ a_m_i = 0

\* --------------------------------------------- barrier (06_barriers), state
BARRIER_THREADS == MaxBarrierThreads
NUM_PHASES == MaxPhases
BThreads == 1 .. BARRIER_THREADS

\* barrier_t: the owner of mutex (0 when free), the threads blocked on cond,
\* count, threshold, serial; each worker's position, phase and my_serial;
\* main's position and loop index
VARIABLES b_mutex, b_waiting, b_count, b_threshold, b_serial,
          b_pc, b_phase, b_my_serial, b_m_pc, b_m_i

bvars == <<b_mutex, b_waiting, b_count, b_threshold, b_serial,
           b_pc, b_phase, b_my_serial, b_m_pc, b_m_i>>

\* main before barrier_init (line 93)
InitB ==
    /\ b_mutex = 0 /\ b_waiting = {} /\ b_count = 0 /\ b_threshold = 0
    /\ b_serial = 0
    /\ b_pc = [t \in BThreads |-> "nothread"]
    /\ b_phase = [t \in BThreads |-> 0]
    /\ b_my_serial = [t \in BThreads |-> 0]
    /\ b_m_pc = "m93" /\ b_m_i = 0

\* ------------------------------- bounded buffer (04_producer_consumer), state
BUFFER_SIZE == MaxBufferSize
NUM_ITEMS == MaxItems
NUM_PRODUCERS == 2
NUM_CONSUMERS == 2
Producers == 1 .. NUM_PRODUCERS
Consumers == 1 .. NUM_CONSUMERS

\* bb (buffer, count, in, out, the holder of mutex, the threads blocked on
\* not_full and on not_empty), produced_count, consumed_count, the position
\* of each producer and consumer, and main's position and loop index
VARIABLES bb_buffer, bb_count, bb_in, bb_out, bb_mutex, bb_not_full,
          bb_not_empty, produced_count, consumed_count, bp_pc, bc_pc,
          bb_m_pc, bb_m_i

bbvars == <<bb_buffer, bb_count, bb_in, bb_out, bb_mutex, bb_not_full,
            bb_not_empty, produced_count, consumed_count, bp_pc, bc_pc,
            bb_m_pc, bb_m_i>>

\* main at line 117: buffer_init has run on the zero-initialised global bb
\* (lines 20-31, 107) and the threads have been created (lines 109-115)
InitBB ==
    /\ bb_buffer = [k \in 0 .. BUFFER_SIZE - 1 |-> 0]
    /\ bb_count = 0 /\ bb_in = 0 /\ bb_out = 0
    /\ bb_mutex = "free" /\ bb_not_full = {} /\ bb_not_empty = {}
    /\ produced_count = 0 /\ consumed_count = 0
    /\ bp_pc = [t \in Producers |-> "p37"]
    /\ bc_pc = [t \in Consumers |-> "c73"]
    /\ bb_m_pc = "m117" /\ bb_m_i = 0

\* ------------------------------------ lock ordering (05_deadlock), state
NUM_TRANSFERS == MaxTransfers
Accounts == {0, 1}

\* accounts[] (balance and the set of holders of mutex, empty when free),
\* transfer_count and the holder of count_mutex, and for each worker its
\* position, loop index and amount; main's position
VARIABLES d_balance, d_mutex, transfer_count, count_mutex, d_pc, d_i,
          d_amount, d_m_pc

dvars == <<d_balance, d_mutex, transfer_count, count_mutex, d_pc, d_i,
           d_amount, d_m_pc>>

\* main at line 76: the accounts are initialised (lines 66-67) and both
\* workers created (lines 72-74)
InitD ==
    /\ d_balance = [a \in Accounts |-> 1000]
    /\ d_mutex = [a \in Accounts |-> {}]
    /\ transfer_count = 0 /\ count_mutex = {}
    /\ d_pc = [t \in Accounts |-> "d44"]
    /\ d_i = [t \in Accounts |-> 0]
    /\ d_amount = [t \in Accounts |-> 0]
    /\ d_m_pc = "m76"

\* -------------------------- flag message passing (04_memory_ordering), state
\* the versions main tests, in its order (lines 129-140): the version
\* without synchronisation three times, then seq_cst, then acquire-release
Versions == <<"broken", "broken", "broken", "seqcst", "acqrel">>

MPThreads == {"main", "prod", "cons"}

\* data and flag (data_broken and flag_broken while the broken version is
\* tested) are kept as C11 keeps an atomic object: the sequence of the
\* values stored to it (its modification order); mp_view[t] is, for thread t
\* and each object, the position of the oldest store t may still read.  A
\* store to flag carries the storing thread's position in data (1, the
\* initialiser, when it carries none).  Further: the version under test (its
\* index in Versions), each thread's position, the consumer's value.
VARIABLES mp_data, mp_flag, mp_view, mp_version, mp_p_pc, mp_c_pc, mp_value,
          mp_m_pc

mpvars == <<mp_data, mp_flag, mp_view, mp_version, mp_p_pc, mp_c_pc, mp_value,
            mp_m_pc>>

\* main at line 129: data and flag hold their initialisers (lines 28-33), no
\* thread runs
InitMP ==
    /\ mp_data = <<0>>
    /\ mp_flag = <<[val |-> 0, view |-> 1]>>
    /\ mp_view = [t \in MPThreads |-> [d |-> 1, f |-> 1]]
    /\ mp_version = 1
    /\ mp_p_pc = "nothread" /\ mp_c_pc = "nothread"
    /\ mp_value = 0
    /\ mp_m_pc = "m94"

\* ------------------------- balance under a mutex (03_race_condition), state
R_NUM_THREADS == MaxTellers
TRANSACTIONS_PER_THREAD == MaxTransactions

\* threads[0 .. NUM_THREADS-1] run deposit, the next NUM_THREADS withdraw
Tellers == 0 .. 2 * R_NUM_THREADS - 1

\* balance, the set of holders of balance_mutex, and for each thread its
\* position, loop index and temp; main's position and loop index
VARIABLES balance, balance_mutex, r_pc, r_i, r_temp, r_m_pc, r_m_i

rvars == <<balance, balance_mutex, r_pc, r_i, r_temp, r_m_pc, r_m_i>>

\* main at line 41: balance has its initialiser (line 8), the mutex is
\* initialised (line 38), no thread runs
InitR ==
    /\ balance = 1000 /\ balance_mutex = {}
    /\ r_pc = [t \in Tellers |-> "nothread"]
    /\ r_i = [t \in Tellers |-> 0]
    /\ r_temp = [t \in Tellers |-> 0]
    /\ r_m_pc = "m41" /\ r_m_i = 0

\* --------------------------- a build with any QUEUE_SIZE (exercise 07), state
\* QUEUE_SIZE as the build defines it; head, tail and buffer of the queue;
\* the caller's position, the locals and the result of queue_enqueue; the
\* number of calls that returned true
VARIABLES n_size, n_head, n_tail, n_buffer, n_pc, n_value, n_h, n_next_head,
          n_t, n_ret, n_succ

nvars == <<n_size, n_head, n_tail, n_buffer, n_pc, n_value, n_h, n_next_head,
           n_t, n_ret, n_succ>>

\* an empty queue after queue_init (lines 67-70)
InitQueueN(n) ==
    /\ n_size = n
    /\ n_head = 0 /\ n_tail = 0
    /\ n_buffer = [i \in 0 .. n - 1 |-> <<>>]
    /\ n_pc = "idle" /\ n_value = 0 /\ n_h = 0 /\ n_next_head = 0 /\ n_t = 0
    /\ n_ret = TRUE /\ n_succ = 0

InitN == InitQueueN(2)

\* ------------------------ two threads calling queue_enqueue (exercise 07), state
Enqueuers == {1, 2}

\* head, tail and buffer of the queue; for each enqueuing thread its position,
\* the locals and the result of its call (thread t passes the value t); the
\* values dequeue calls have handed out
VARIABLES tp_head, tp_tail, tp_buffer, tp_pc, tp_h, tp_next_head, tp_t,
          tp_ret, tp_dequeued

tpvars == <<tp_head, tp_tail, tp_buffer, tp_pc, tp_h, tp_next_head, tp_t,
            tp_ret, tp_dequeued>>

\* an empty queue after queue_init (lines 67-70), both threads about to call
InitTP ==
    /\ tp_head = 0 /\ tp_tail = 0
    /\ tp_buffer = [i \in Slots |-> <<>>]
    /\ tp_pc = [t \in Enqueuers |-> "e102"]
    /\ tp_h = [t \in Enqueuers |-> 0]
    /\ tp_next_head = [t \in Enqueuers |-> 0]
    /\ tp_t = [t \in Enqueuers |-> 0]
    /\ tp_ret = [t \in Enqueuers |-> FALSE]
    /\ tp_dequeued = <<>>

\* --------------- the queue of exercise 07 beside the queue of exercise 08, state
QUEUE_SIZE_08 == 1024
MASK_08 == QUEUE_SIZE_08 - 1

\* the width of int
INT_BITS == 32
INT_MAX == (Pow2(INT_BITS - 2) - 1) * 2 + 1

Impls == {"q07", "s08"}

\* for each of the two queues: head, tail, buffer, and the position, locals
\* and result of the call in progress on the enqueuing and on the dequeuing
\* side; the number of calls made on each side
VARIABLES eq_head, eq_tail, eq_buffer, eq_p, eq_c, eq_calls

eqvars == <<eq_head, eq_tail, eq_buffer, eq_p, eq_c, eq_calls>>

NoCallP == [pc |-> "idle", value |-> 0, head |-> 0, next_head |-> 0, tail |-> 0, ret |-> FALSE]
NoCallC == [pc |-> "idle", tail |-> 0, head |-> 0, next_tail |-> 0, value |-> 0, ret |-> FALSE]

\* both queues in the same state: tail at t, n values resident
InitPair(t, n) ==
    /\ eq_tail = [k \in Impls |-> t]
    /\ eq_head = [k \in Impls |-> (t + n) % QUEUE_SIZE_08]
    /\ eq_buffer = [k \in Impls |-> [i \in 0 .. QUEUE_SIZE_08 - 1 |-> i + 1]]
    /\ eq_p = [k \in Impls |-> NoCallP]
    /\ eq_c = [k \in Impls |-> NoCallC]
    /\ eq_calls = [enq |-> 0, deq |-> 0]

InitEQ == InitPair(0, 0)

\* ------------------------------ spinlocks (05_spinlock_internals), state
S_NUM_THREADS == MaxSpinThreads
ITERATIONS == MaxSpinIterations
BACKOFF_MIN == 4
BACKOFF_MAX == BACKOFF_MIN * Pow2(MaxBackoffDoublings)

SpinWorkers == 1 .. S_NUM_THREADS

\* the hand-written locks, in the order of main's tests 1 to 4
Kinds == <<"tas", "ttas", "ttas_pause", "backoff">>

\* the lock under test (its index in Kinds), its flag, shared_counter, and
\* for each worker its position, loop index, the value it read of
\* shared_counter, and backoff; main's position
VARIABLES s_kind, s_locked, s_counter, s_pc, s_i, s_tmp, s_backoff, s_m_pc

svars == <<s_kind, s_locked, s_counter, s_pc, s_i, s_tmp, s_backoff, s_m_pc>>

\* main before its first test: no worker runs, shared_counter has its
\* initialiser (line 158)
InitS ==
    /\ s_kind = 1 /\ s_locked = FALSE /\ s_counter = 0
    /\ s_pc = [t \in SpinWorkers |-> "nothread"]
    /\ s_i = [t \in SpinWorkers |-> 0]
    /\ s_tmp = [t \in SpinWorkers |-> 0]
    /\ s_backoff = [t \in SpinWorkers |-> 0]
    /\ s_m_pc = "test"

\* the variables of the other programs
others07 == <<start_flag, vcvars, lvars, avars, bvars, bbvars, dvars, mpvars, rvars, nvars, tpvars, eqvars, svars>>

InitOthers07 == start_flag = 0 /\ InitC /\ InitL /\ InitA /\ InitB /\ InitBB /\ InitD /\ InitMP /\ InitR /\ InitN /\ InitTP /\ InitEQ /\ InitS

vars == <<qvars, pvars, cvars, hvars, m_pc, others07>>

\* ------------------------------------------------------------ construction
\* queue_init over memory obtained from cache_aligned_alloc: both cursors 0,
\* buffer contents indeterminate.
queue_init ==
    /\ buffer = [s \in Slots |-> <<>>]
    /\ q_head = 0
    /\ q_tail = 0
    /\ wbuf = <<>>

Init07 ==
    /\ queue_init
    /\ p_pc = "idle" /\ p_value = 0 /\ p_head = 0 /\ p_next_head = 0
    /\ p_tail = 0 /\ p_ret = FALSE /\ p_i = 0 /\ p_backoff = "pause"
    /\ c_pc = "idle" /\ c_tail = 0 /\ c_head = 0 /\ c_next_tail = 0
    /\ c_value = <<>> /\ c_ret = FALSE /\ c_received = 0 /\ c_error = FALSE
    /\ c_backoff = "pause"
    /\ enqueued = <<>> /\ dequeued = <<>>
    /\ p_calls = 0 /\ c_calls = 0 /\ p_writes = 0
    /\ m_pc = "m194"

Init == Init07 /\ InitOthers07

\* ------------------------------------------------------- memory operations
\* memory after the pending write w = <<slot, value>> has reached it
ApplyWrite(buf, w) == [buf EXCEPT ![w[1]] = <<w[2]>>]

RECURSIVE ApplyAll(_, _)
ApplyAll(buf, ws) ==
    IF ws = <<>> THEN buf ELSE ApplyAll(ApplyWrite(buf, Head(ws)), Tail(ws))

\* faulty variant: a relaxed store, the new head may be in memory before earlier writes
StoreHeadRelaxed(v) ==
    /\ q_head' = v
    /\ UNCHANGED <<buffer, wbuf>>

\* atomic_store_explicit(&q->head, v, memory_order_release): every earlier
\* write of the producer is in memory when the new head is.
StoreHeadRelease(v) ==
    /\ buffer' = ApplyAll(buffer, wbuf)
    /\ wbuf' = <<>>
    /\ q_head' = v

\* faulty variant: the pending write is lost instead of reaching memory
Drain_Drop ==
    /\ wbuf # <<>>
    /\ wbuf' = Tail(wbuf)
    /\ UNCHANGED <<buffer, q_head, q_tail, pvars, cvars, hvars>>
    /\ UNCHANGED <<m_pc, others07>>

\* a pending plain write reaches memory (oldest first)
Drain ==
    /\ wbuf # <<>>
    /\ buffer' = ApplyWrite(buffer, Head(wbuf))
    /\ wbuf' = Tail(wbuf)
    /\ UNCHANGED <<q_head, q_tail, pvars, cvars, hvars>>
    /\ UNCHANGED <<m_pc, others07>>

\* plain read of q->buffer[i] by the consumer
ReadSlot(i) == IF buffer[i] = <<>> THEN AnyInt ELSE {buffer[i][1]}

\* ------------------------------------------------------------ queue_enqueue
EnqueueEntry(v) ==
    /\ p_value' = v
    /\ p_pc' = "e102"

\* the parameter and the locals of queue_enqueue cease to exist at its return
EnqueueLocalsEnd ==
    /\ p_value' = 0 /\ p_head' = 0 /\ p_next_head' = 0 /\ p_tail' = 0

\* line 102: size_t head = atomic_load_explicit(&q->head, relaxed)
P_LoadHead ==
    /\ p_pc = "e102"
    /\ p_head' = q_head
    /\ p_pc' = "e103"
    /\ UNCHANGED <<qvars, p_value, p_next_head, p_tail, p_ret, p_i, p_backoff, cvars, hvars>>
    /\ UNCHANGED <<m_pc, others07>>

\* faulty variant: the advanced index is not wrapped
P_NextHead_NoMask ==
    /\ p_pc = "e103"
    /\ p_next_head' = p_head + 1
    /\ p_pc' = "e104"
    /\ UNCHANGED <<qvars, p_value, p_head, p_tail, p_ret, p_i, p_backoff, cvars, hvars>>
    /\ UNCHANGED <<m_pc, others07>>

\* line 103: size_t next_head = (head + 1) & MASK
P_NextHead ==
    /\ p_pc = "e103"
    /\ p_next_head' = BitAnd(p_head + 1, MASK)
    /\ p_pc' = "e104"
    /\ UNCHANGED <<qvars, p_value, p_head, p_tail, p_ret, p_i, p_backoff, cvars, hvars>>
    /\ UNCHANGED <<m_pc, others07>>

\* faulty variant: the wrong cursor is loaded into tail
P_LoadTail_WrongCursor ==
    /\ p_pc = "e104"
    /\ p_tail' = q_head
    /\ p_pc' = "e106"
    /\ UNCHANGED <<qvars, p_value, p_head, p_next_head, p_ret, p_i, p_backoff, cvars, hvars>>
    /\ UNCHANGED <<m_pc, others07>>

\* faulty variant: tail is not loaded, the value queue_init gave it is used
P_LoadTail_Initial ==
    /\ p_pc = "e104"
    /\ p_tail' = 0
    /\ p_pc' = "e106"
    /\ UNCHANGED <<qvars, p_value, p_head, p_next_head, p_ret, p_i, p_backoff, cvars, hvars>>
    /\ UNCHANGED <<m_pc, others07>>

\* line 104: size_t tail = atomic_load_explicit(&q->tail, acquire)
P_LoadTail ==
    /\ p_pc = "e104"
    /\ p_tail' = q_tail
    /\ p_pc' = "e106"
    /\ UNCHANGED <<qvars, p_value, p_head, p_next_head, p_ret, p_i, p_backoff, cvars, hvars>>
    /\ UNCHANGED <<m_pc, others07>>

\* faulty variant: full is declared one slot early
P_CheckFull_OffByOne ==
    /\ p_pc = "e106"
    /\ p_pc' = IF BitAnd(p_next_head + 1, MASK) = p_tail THEN "e107" ELSE "e111"
    /\ UNCHANGED <<qvars, p_value, p_head, p_next_head, p_tail, p_ret, p_i, p_backoff,
                   cvars, hvars>>
    /\ UNCHANGED <<m_pc, others07>>

\* line 106: if (next_head == tail)
P_CheckFull ==
    /\ p_pc = "e106"
    /\ p_pc' = IF p_next_head = p_tail THEN "e107" ELSE "e111"
    /\ UNCHANGED <<qvars, p_value, p_head, p_next_head, p_tail, p_ret, p_i, p_backoff, cvars, hvars>>
    /\ UNCHANGED <<m_pc, others07>>

\* faulty variant: on full the slot at head is overwritten before returning false
P_ReturnFull_Overwrite ==
    /\ p_pc = "e107"
    /\ wbuf' = Append(wbuf, <<p_head, p_value>>)
    /\ p_writes' = p_writes + 1
    /\ p_ret' = FALSE
    /\ p_pc' = "ret"
    /\ EnqueueLocalsEnd
    /\ UNCHANGED <<buffer, q_head, q_tail, p_i, p_backoff, cvars,
                   enqueued, dequeued, p_calls, c_calls>>
    /\ UNCHANGED <<m_pc, others07>>

\* line 107: return false
P_ReturnFull ==
    /\ p_pc = "e107"
    /\ p_ret' = FALSE
    /\ p_pc' = "ret"
    /\ EnqueueLocalsEnd
    /\ UNCHANGED <<qvars, p_i, p_backoff, cvars, hvars>>
    /\ UNCHANGED <<m_pc, others07>>

\* faulty variant: the value is written at the advanced index
P_WriteBuffer_AtNext ==
    /\ p_pc = "e111"
    /\ wbuf' = Append(wbuf, <<p_next_head, p_value>>)
    /\ p_writes' = p_writes + 1
    /\ p_pc' = "e112"
    /\ UNCHANGED <<buffer, q_head, q_tail, p_value, p_head, p_next_head, p_tail,
                   p_ret, p_i, p_backoff, cvars, enqueued, dequeued, p_calls, c_calls>>
    /\ UNCHANGED <<m_pc, others07>>

\* line 111: q->buffer[head] = value
P_WriteBuffer ==
    /\ p_pc = "e111"
    /\ wbuf' = Append(wbuf, <<p_head, p_value>>)
    /\ p_writes' = p_writes + 1
    /\ p_pc' = "e112"
    /\ UNCHANGED <<buffer, q_head, q_tail, p_value, p_head, p_next_head, p_tail,
                   p_ret, p_i, p_backoff, cvars, enqueued, dequeued, p_calls, c_calls>>
    /\ UNCHANGED <<m_pc, others07>>

\* faulty variant: the old head is stored instead of next_head
P_StoreHead_OldHead ==
    /\ p_pc = "e112"
    /\ StoreHeadRelease(p_head)
    /\ enqueued' = Append(enqueued, p_value)
    /\ p_pc' = "e113"
    /\ UNCHANGED <<q_tail, p_value, p_head, p_next_head, p_tail, p_ret, p_i, p_backoff,
                   cvars, dequeued, p_calls, c_calls, p_writes>>
    /\ UNCHANGED <<m_pc, others07>>

\* line 112: atomic_store_explicit(&q->head, next_head, release)
P_StoreHead ==
    /\ p_pc = "e112"
    /\ StoreHeadRelease(p_next_head)
    /\ enqueued' = Append(enqueued, p_value)
    /\ p_pc' = "e113"
    /\ UNCHANGED <<q_tail, p_value, p_head, p_next_head, p_tail, p_ret, p_i, p_backoff, cvars,
                   dequeued, p_calls, c_calls, p_writes>>
    /\ UNCHANGED <<m_pc, others07>>

\* line 113: return true
P_ReturnTrue ==
    /\ p_pc = "e113"
    /\ p_ret' = TRUE
    /\ p_pc' = "ret"
    /\ EnqueueLocalsEnd
    /\ UNCHANGED <<qvars, p_i, p_backoff, cvars, hvars>>
    /\ UNCHANGED <<m_pc, others07>>

queue_enqueue ==
    \/ P_LoadHead \/ P_NextHead \/ P_LoadTail \/ P_CheckFull
    \/ P_ReturnFull \/ P_WriteBuffer \/ P_StoreHead \/ P_ReturnTrue

\* ------------------------------------------------------------ queue_dequeue
DequeueEntry ==
    /\ c_pc' = "d118"

\* the locals of queue_dequeue cease to exist at its return
DequeueLocalsEnd ==
    /\ c_tail' = 0 /\ c_head' = 0 /\ c_next_tail' = 0

\* line 118: size_t tail = atomic_load_explicit(&q->tail, relaxed)
C_LoadTail ==
    /\ c_pc = "d118"
    /\ c_tail' = q_tail
    /\ c_pc' = "d120"
    /\ UNCHANGED <<qvars, pvars, c_head, c_next_tail, c_value, c_ret, c_received,
                   c_error, c_backoff, hvars>>
    /\ UNCHANGED <<m_pc, others07>>

\* faulty variant: the call waits until the queue is not empty
C_LoadHead_Wait ==
    /\ c_pc = "d120"
    /\ q_head # c_tail
    /\ c_head' = q_head
    /\ c_pc' = "d121"
    /\ UNCHANGED <<qvars, pvars, c_tail, c_next_tail, c_value, c_ret, c_received,
                   c_error, c_backoff, hvars>>
    /\ UNCHANGED <<m_pc, others07>>

\* line 120: size_t head = atomic_load_explicit(&q->head, acquire)
C_LoadHead ==
    /\ c_pc = "d120"
    /\ c_head' = q_head
    /\ c_pc' = "d121"
    /\ UNCHANGED <<qvars, pvars, c_tail, c_next_tail, c_value, c_ret, c_received,
                   c_error, c_backoff, hvars>>
    /\ UNCHANGED <<m_pc, others07>>

\* faulty variant: the slot is copied to *value before the emptiness test
C_CheckEmpty_ReadFirst ==
    /\ c_pc = "d121"
    /\ c_value' \in {<<v>> : v \in ReadSlot(c_tail)}
    /\ c_pc' = IF c_head = c_tail THEN "d122" ELSE "d126"
    /\ UNCHANGED <<qvars, pvars, c_tail, c_head, c_next_tail, c_ret,
                   c_received, c_error, c_backoff, hvars>>
    /\ UNCHANGED <<m_pc, others07>>

\* faulty variant: the emptiness test is inverted
C_CheckEmpty_Inverted ==
    /\ c_pc = "d121"
    /\ c_pc' = IF c_head # c_tail THEN "d122" ELSE "d126"
    /\ UNCHANGED <<qvars, pvars, c_tail, c_head, c_next_tail, c_value, c_ret,
                   c_received, c_error, c_backoff, hvars>>
    /\ UNCHANGED <<m_pc, others07>>

\* line 121: if (head == tail)
C_CheckEmpty ==
    /\ c_pc = "d121"
    /\ c_pc' = IF c_head = c_tail THEN "d122" ELSE "d126"
    /\ UNCHANGED <<qvars, pvars, c_tail, c_head, c_next_tail, c_value, c_ret,
                   c_received, c_error, c_backoff, hvars>>
    /\ UNCHANGED <<m_pc, others07>>

\* line 122: return false
C_ReturnEmpty ==
    /\ c_pc = "d122"
    /\ c_ret' = FALSE
    /\ c_pc' = "ret"
    /\ DequeueLocalsEnd
    /\ UNCHANGED <<qvars, pvars, c_value, c_received, c_error, c_backoff, hvars>>
    /\ UNCHANGED <<m_pc, others07>>

\* faulty variant: the slot before head (the newest value) is read
C_ReadBuffer_Newest ==
    /\ c_pc = "d126"
    /\ c_value' \in {<<v>> : v \in ReadSlot(BitAnd(c_head + MASK, MASK))}
    /\ c_pc' = "d127"
    /\ UNCHANGED <<qvars, pvars, c_tail, c_head, c_next_tail, c_ret, c_received,
                   c_error, c_backoff, hvars>>
    /\ UNCHANGED <<m_pc, others07>>

\* line 126: *value = q->buffer[tail]
C_ReadBuffer ==
    /\ c_pc = "d126"
    /\ c_value' \in {<<v>> : v \in ReadSlot(c_tail)}
    /\ c_pc' = "d127"
    /\ UNCHANGED <<qvars, pvars, c_tail, c_head, c_next_tail, c_ret, c_received,
                   c_error, c_backoff, hvars>>
    /\ UNCHANGED <<m_pc, others07>>

\* faulty variant: the advanced index is not wrapped
C_NextTail_NoMask ==
    /\ c_pc = "d127"
    /\ c_next_tail' = c_tail + 1
    /\ c_pc' = "d128"
    /\ UNCHANGED <<qvars, pvars, c_tail, c_head, c_value, c_ret, c_received,
                   c_error, c_backoff, hvars>>
    /\ UNCHANGED <<m_pc, others07>>

\* line 127: size_t next_tail = (tail + 1) & MASK
C_NextTail ==
    /\ c_pc = "d127"
    /\ c_next_tail' = BitAnd(c_tail + 1, MASK)
    /\ c_pc' = "d128"
    /\ UNCHANGED <<qvars, pvars, c_tail, c_head, c_value, c_ret, c_received,
                   c_error, c_backoff, hvars>>
    /\ UNCHANGED <<m_pc, others07>>

\* faulty variant: the advanced tail is stored into head
C_StoreTail_WrongCursor ==
    /\ c_pc = "d128"
    /\ q_head' = c_next_tail
    /\ dequeued' = Append(dequeued, c_value[1])
    /\ c_pc' = "d129"
    /\ UNCHANGED <<buffer, q_tail, wbuf, pvars, c_tail, c_head, c_next_tail,
                   c_value, c_ret, c_received, c_error, c_backoff,
                   enqueued, p_calls, c_calls, p_writes>>
    /\ UNCHANGED <<m_pc, others07>>

\* line 128: atomic_store_explicit(&q->tail, next_tail, release)
C_StoreTail ==
    /\ c_pc = "d128"
    /\ q_tail' = c_next_tail
    /\ dequeued' = Append(dequeued, c_value[1])
    /\ c_pc' = "d129"
    /\ UNCHANGED <<buffer, q_head, wbuf, pvars, c_tail, c_head, c_next_tail,
                   c_value, c_ret, c_received, c_error, c_backoff,
                   enqueued, p_calls, c_calls, p_writes>>
    /\ UNCHANGED <<m_pc, others07>>

\* line 129: return true
C_ReturnTrue ==
    /\ c_pc = "d129"
    /\ c_ret' = TRUE
    /\ c_pc' = "ret"
    /\ DequeueLocalsEnd
    /\ UNCHANGED <<qvars, pvars, c_value, c_received, c_error, c_backoff, hvars>>
    /\ UNCHANGED <<m_pc, others07>>

queue_dequeue ==
    \/ C_LoadTail \/ C_LoadHead \/ C_CheckEmpty \/ C_ReturnEmpty
    \/ C_ReadBuffer \/ C_NextTail \/ C_StoreTail \/ C_ReturnTrue

\* ------------------------------------------------- an arbitrary SPSC caller
\* one thread calls queue_enqueue, one calls queue_dequeue, each any number
\* of times.  The enqueuing caller passes the value of its previous call
\* again (whatever that call returned) or a value it has not passed before.
CallValues == (IF p_calls = 0 THEN {} ELSE {p_i}) \cup {p_calls + 1}

P_Call ==
    /\ p_pc \in {"idle", "ret"}
    /\ p_calls < MaxEnqCalls
    /\ \E v \in CallValues : EnqueueEntry(v) /\ p_i' = v
    /\ p_calls' = p_calls + 1
    /\ UNCHANGED <<qvars, p_head, p_next_head, p_tail, p_ret, p_backoff, cvars,
                   enqueued, dequeued, c_calls, p_writes>>
    /\ UNCHANGED <<m_pc, others07>>

C_Call ==
    /\ c_pc \in {"idle", "ret"}
    /\ c_calls < MaxDeqCalls
    /\ DequeueEntry
    /\ c_calls' = c_calls + 1
    /\ UNCHANGED <<qvars, pvars, c_tail, c_head, c_next_tail, c_value, c_ret,
                   c_received, c_error, c_backoff, enqueued, dequeued, p_calls,
                   p_writes>>
    /\ UNCHANGED <<m_pc, others07>>

\* ------------------------------------------------ test threads (lines 133-168)
\* adaptive_backoff(&backoff): pause, yield or sleep by the size of *attempts,
\* then (*attempts)++.  The counter is kept by the branch it selects: from a
\* branch the increment stays in it or moves to the next one.
adaptive_backoff(b) ==
    CASE b = "pause" -> {"pause", "yield"}
      [] b = "yield" -> {"yield", "sleep"}
      [] OTHER       -> {"sleep"}

\* line 137: for (int i = 0; ...
T_P_Start ==
    /\ c_pc # "exit"
    /\ p_pc = "idle"
    /\ p_i' = 0
    /\ p_pc' = "h137"
    /\ UNCHANGED <<qvars, p_value, p_head, p_next_head, p_tail, p_ret, p_backoff,
                   cvars, hvars>>
    /\ UNCHANGED <<m_pc, others07>>

\* line 137: ... i < NUM_MESSAGES; ...
T_P_For ==
    /\ c_pc # "exit"
    /\ p_pc = "h137"
    /\ p_pc' = IF p_i < NUM_MESSAGES THEN "h138" ELSE "h144"
    /\ UNCHANGED <<qvars, p_value, p_head, p_next_head, p_tail, p_ret, p_i,
                   p_backoff, cvars, hvars>>
    /\ UNCHANGED <<m_pc, others07>>

\* line 138: queue_enqueue(q, i) is called
T_P_Enqueue ==
    /\ c_pc # "exit"
    /\ p_pc = "h138"
    /\ EnqueueEntry(p_i)
    /\ UNCHANGED <<qvars, p_head, p_next_head, p_tail, p_ret, p_i, p_backoff,
                   cvars, hvars>>
    /\ UNCHANGED <<m_pc, others07>>

\* faulty variant: the loop moves on to the next value whatever the call returned
T_P_While_NoRetry ==
    /\ c_pc # "exit"
    /\ p_pc = "ret"
    /\ p_backoff' = "pause"
    /\ p_i' = p_i + 1
    /\ p_pc' = "h137"
    /\ UNCHANGED <<qvars, p_value, p_head, p_next_head, p_tail, p_ret, cvars, hvars>>
    /\ UNCHANGED <<m_pc, others07>>

\* lines 138-141: while (!result) adaptive_backoff; after the loop backoff = 0
\* and i++
T_P_While ==
    /\ c_pc # "exit"
    /\ p_pc = "ret"
    /\ IF p_ret
       THEN /\ p_backoff' = "pause"
            /\ p_i' = p_i + 1
            /\ p_pc' = "h137"
       ELSE /\ p_backoff' \in adaptive_backoff(p_backoff)
            /\ p_i' = p_i
            /\ p_pc' = "h138"
    /\ UNCHANGED <<qvars, p_value, p_head, p_next_head, p_tail, p_ret, cvars, hvars>>
    /\ UNCHANGED <<m_pc, others07>>

producer == T_P_Start \/ T_P_For \/ T_P_Enqueue \/ T_P_While \/ queue_enqueue

\* line 151: int received = 0
T_C_Start ==
    /\ c_pc = "idle"
    /\ c_received' = 0
    /\ c_pc' = "h154"
    /\ UNCHANGED <<qvars, pvars, c_tail, c_head, c_next_tail, c_value, c_ret,
                   c_error, c_backoff, hvars>>
    /\ UNCHANGED <<m_pc, others07>>

\* line 154: while (received < NUM_MESSAGES)
T_C_While ==
    /\ c_pc = "h154"
    /\ c_pc' = IF c_received < NUM_MESSAGES THEN "h155" ELSE "h167"
    /\ UNCHANGED <<qvars, pvars, c_tail, c_head, c_next_tail, c_value, c_ret,
                   c_received, c_error, c_backoff, hvars>>
    /\ UNCHANGED <<m_pc, others07>>

\* line 155: queue_dequeue(q, &value) is called
T_C_Dequeue ==
    /\ c_pc = "h155"
    /\ DequeueEntry
    /\ UNCHANGED <<qvars, pvars, c_tail, c_head, c_next_tail, c_value, c_ret,
                   c_received, c_error, c_backoff, hvars>>
    /\ UNCHANGED <<m_pc, others07>>

\* faulty variant: the consumer stops polling once a call has returned false
T_C_If_GiveUp ==
    /\ c_pc = "ret"
    /\ IF c_ret
       THEN /\ c_pc' = "h156"
            /\ c_backoff' = c_backoff
       ELSE /\ c_pc' = "h167"
            /\ c_backoff' \in adaptive_backoff(c_backoff)
    /\ UNCHANGED <<qvars, pvars, c_tail, c_head, c_next_tail, c_value, c_ret,
                   c_received, c_error, hvars>>
    /\ UNCHANGED <<m_pc, others07>>

\* lines 155, 162-164: if (result) ... else adaptive_backoff(&backoff)
T_C_If ==
    /\ c_pc = "ret"
    /\ IF c_ret
       THEN /\ c_pc' = "h156"
            /\ c_backoff' = c_backoff
       ELSE /\ c_pc' = "h154"
            /\ c_backoff' \in adaptive_backoff(c_backoff)
    /\ UNCHANGED <<qvars, pvars, c_tail, c_head, c_next_tail, c_value, c_ret,
                   c_received, c_error, hvars>>
    /\ UNCHANGED <<m_pc, others07>>

\* lines 156-161: if (value != received) exit(1); received++; backoff = 0
T_C_Compare ==
    /\ c_pc = "h156"
    /\ IF c_value[1] # c_received
       THEN /\ c_error' = TRUE
            /\ c_pc' = "exit"
            /\ UNCHANGED <<c_received, c_backoff>>
       ELSE /\ c_received' = c_received + 1
            /\ c_backoff' = "pause"
            /\ c_pc' = "h154"
            /\ c_error' = c_error
    /\ UNCHANGED <<qvars, pvars, c_tail, c_head, c_next_tail, c_value, c_ret, hvars>>
    /\ UNCHANGED <<m_pc, others07>>

consumer == T_C_Start \/ T_C_While \/ T_C_Dequeue \/ T_C_If \/ T_C_Compare \/ queue_dequeue

\* main, lines 191-195: both threads run until joined.  exit(1) in the consumer
\* ends the process: the producer's loop takes no further step (a statement
\* of a call already in progress may still be taken).
NextTest == producer \/ consumer \/ Drain

SpecTest == Init /\ [][NextTest]_vars

\* both threads keep being scheduled until they return
SpecTestFair == SpecTest /\ WF_vars(producer) /\ WF_vars(consumer)

\* what a word of memory returned by cache_aligned_alloc (posix_memalign,
\* not zeroed) may hold before queue_init stores to it
Garbage == 0 .. QUEUE_SIZE

\* ------------------------------------- the protocol with a relaxed head store
\* line 112 with memory_order_relaxed in place of memory_order_release: the
\* new head is in memory at once, the pending buffer writes stay pending
P_StoreHead_Relaxed ==
    /\ p_pc = "e112"
    /\ q_head' = p_next_head
    /\ enqueued' = Append(enqueued, p_value)
    /\ p_pc' = "e113"
    /\ UNCHANGED <<buffer, wbuf, q_tail, p_value, p_head, p_next_head, p_tail,
                   p_ret, p_i, p_backoff, cvars, dequeued, p_calls, c_calls,
                   p_writes>>
    /\ UNCHANGED <<m_pc, others07>>

queue_enqueue_relaxed ==
    \/ P_LoadHead \/ P_NextHead \/ P_LoadTail \/ P_CheckFull
    \/ P_ReturnFull \/ P_WriteBuffer \/ P_StoreHead_Relaxed \/ P_ReturnTrue

NextRelaxed ==
    \/ T_P_Start \/ T_P_For \/ T_P_Enqueue \/ T_P_While
    \/ queue_enqueue_relaxed \/ consumer \/ Drain

SpecRelaxed == Init /\ [][NextRelaxed]_vars

\* ------------------------------------------------------- main, exercise 07

\* main before line 176: no queue, no threads
InitMain ==
    /\ buffer = [s \in Slots |-> <<>>]
    /\ q_head \in Garbage /\ q_tail \in Garbage
    /\ wbuf = <<>>
    /\ p_pc = "nothread" /\ p_value = 0 /\ p_head = 0 /\ p_next_head = 0
    /\ p_tail = 0 /\ p_ret = FALSE /\ p_i = 0 /\ p_backoff = "pause"
    /\ c_pc = "nothread" /\ c_tail = 0 /\ c_head = 0 /\ c_next_tail = 0
    /\ c_value = <<>> /\ c_ret = FALSE /\ c_received = 0 /\ c_error = FALSE
    /\ c_backoff = "pause"
    /\ enqueued = <<>> /\ dequeued = <<>>
    /\ p_calls = 0 /\ c_calls = 0 /\ p_writes = 0
    /\ m_pc = "m176"
    /\ InitOthers07

\* lines 176-180: queue = cache_aligned_alloc(...); if (!queue) return 1
M_Alloc ==
    /\ m_pc = "m176"
    /\ m_pc' \in {"m68", "return1"}
    /\ UNCHANGED <<qvars, pvars, cvars, hvars, others07>>

\* line 68 (queue_init, called at line 181): atomic_store(&q->head, 0)
M_InitHead ==
    /\ m_pc = "m68"
    /\ q_head' = 0
    /\ m_pc' = "m69"
    /\ UNCHANGED <<buffer, q_tail, wbuf, pvars, cvars, hvars, others07>>

\* faulty variant: tail is left as allocated
M_InitTail_Skip ==
    /\ m_pc = "m69"
    /\ m_pc' = "m191"
    /\ UNCHANGED <<qvars, pvars, cvars, hvars, others07>>

\* line 69: atomic_store(&q->tail, 0)
M_InitTail ==
    /\ m_pc = "m69"
    /\ q_tail' = 0
    /\ m_pc' = "m191"
    /\ UNCHANGED <<buffer, q_head, wbuf, pvars, cvars, hvars, others07>>

\* line 191: pthread_create(&cons, NULL, consumer, queue)
M_CreateConsumer ==
    /\ m_pc = "m191"
    /\ c_pc' = "idle"
    /\ m_pc' = "m192"
    /\ UNCHANGED <<qvars, pvars, c_tail, c_head, c_next_tail, c_value, c_ret,
                   c_received, c_error, c_backoff, hvars, others07>>

\* line 192: pthread_create(&prod, NULL, producer, queue)
M_CreateProducer ==
    /\ m_pc = "m192"
    /\ p_pc' = "idle"
    /\ m_pc' = "m194"
    /\ UNCHANGED <<qvars, p_value, p_head, p_next_head, p_tail, p_ret, p_i,
                   p_backoff, cvars, hvars, others07>>

\* line 194: pthread_join(prod, NULL) returns once producer has returned
M_JoinProducer ==
    /\ m_pc = "m194"
    /\ p_pc = "h144"
    /\ c_pc # "exit"
    /\ m_pc' = "m195"
    /\ UNCHANGED <<qvars, pvars, cvars, hvars, others07>>

\* line 195: pthread_join(cons, NULL) returns once consumer has returned
M_JoinConsumer ==
    /\ m_pc = "m195"
    /\ c_pc = "h167"
    /\ m_pc' = "m196"
    /\ UNCHANGED <<qvars, pvars, cvars, hvars, others07>>

main07 ==
    \/ M_Alloc \/ M_InitHead \/ M_InitTail \/ M_CreateConsumer
    \/ M_CreateProducer \/ M_JoinProducer \/ M_JoinConsumer

NextMain == main07 \/ producer \/ consumer \/ Drain

SpecMain == InitMain /\ [][NextMain]_vars

\* ------------------------------------------------- capstone, Variant C
\* the variables of the other programs
othersC == <<qvars, pvars, cvars, hvars, m_pc, lvars, avars, bvars, bbvars, dvars, mpvars, rvars, nvars, tpvars, eqvars, svars>>

\* line 399: spsc_queue_t queue, a local whose contents are indeterminate
VC_M_Declare ==
    /\ vc_m_pc = "m399"
    /\ vc_head' \in Garbage /\ vc_tail' \in Garbage
    /\ vc_m_pc' = "m400"
    /\ UNCHANGED <<vc_buffer, vc_wbuf, vc_p_pc, vc_p_i, vc_p_head, vc_c_pc,
                   vc_c_i, vc_c_tail, vc_c_value, vc_sum, vc_observed,
                   start_flag, othersC>>

\* lines 318-324 (called at line 400): both cursors are stored 0
spsc_init ==
    /\ vc_m_pc = "m400"
    /\ vc_head' = 0 /\ vc_tail' = 0
    /\ vc_m_pc' = "m402"
    /\ UNCHANGED <<vc_buffer, vc_wbuf, vc_p_pc, vc_p_i, vc_p_head, vc_c_pc,
                   vc_c_i, vc_c_tail, vc_c_value, vc_sum, vc_observed,
                   start_flag, othersC>>

\* lines 402, 416, 425: atomic_store(&start_flag, v)
VC_M_StoreFlag ==
    /\ vc_m_pc \in {"m402", "m416", "m425"}
    /\ start_flag' = IF vc_m_pc = "m416" THEN 1 ELSE 0
    /\ vc_m_pc' = CASE vc_m_pc = "m402" -> "m413"
                    [] vc_m_pc = "m416" -> "m418"
                    [] OTHER            -> "m428"
    /\ UNCHANGED <<vc_buffer, vc_head, vc_tail, vc_wbuf, vc_p_pc, vc_p_i,
                   vc_p_head, vc_c_pc, vc_c_i, vc_c_tail, vc_c_value, vc_sum,
                   vc_observed, othersC>>

\* line 413: pthread_create(&cons, NULL, consumer, &queue)
VC_M_CreateConsumer ==
    /\ vc_m_pc = "m413"
    /\ vc_c_pc' = "c376"
    /\ vc_m_pc' = "m414"
    /\ UNCHANGED <<vc_buffer, vc_head, vc_tail, vc_wbuf, vc_p_pc, vc_p_i,
                   vc_p_head, vc_c_i, vc_c_tail, vc_c_value, vc_sum,
                   vc_observed, start_flag, othersC>>

\* line 414: pthread_create(&prod, NULL, producer, &queue)
VC_M_CreateProducer ==
    /\ vc_m_pc = "m414"
    /\ vc_p_pc' = "p358"
    /\ vc_m_pc' = "m416"
    /\ UNCHANGED <<vc_buffer, vc_head, vc_tail, vc_wbuf, vc_p_i, vc_p_head,
                   vc_c_pc, vc_c_i, vc_c_tail, vc_c_value, vc_sum,
                   vc_observed, start_flag, othersC>>

\* line 418: pthread_join(prod, NULL)
VC_M_JoinProducer ==
    /\ vc_m_pc = "m418"
    /\ vc_p_pc = "p370"
    /\ vc_m_pc' = "m419"
    /\ UNCHANGED <<vc_buffer, vc_head, vc_tail, vc_wbuf, vc_p_pc, vc_p_i,
                   vc_p_head, vc_c_pc, vc_c_i, vc_c_tail, vc_c_value, vc_sum,
                   vc_observed, start_flag, othersC>>

\* lines 419-421: pthread_join(cons, &consumer_result); observed is the
\* consumer's return value
VC_M_JoinConsumer ==
    /\ vc_m_pc = "m419"
    /\ vc_c_pc = "c393"
    /\ vc_observed' = vc_sum
    /\ vc_m_pc' = "m425"
    /\ UNCHANGED <<vc_buffer, vc_head, vc_tail, vc_wbuf, vc_p_pc, vc_p_i,
                   vc_p_head, vc_c_pc, vc_c_i, vc_c_tail, vc_c_value, vc_sum,
                   start_flag, othersC>>

run_variant_c ==
    \/ VC_M_Declare \/ spsc_init \/ VC_M_StoreFlag \/ VC_M_CreateConsumer
    \/ VC_M_CreateProducer \/ VC_M_JoinProducer \/ VC_M_JoinConsumer

\* lines 358-362, 376-383: while (start_flag == 0) CPU_PAUSE(); the thread
\* leaves the loop when it loads a nonzero flag, and enters its for loop
VC_P_Spin ==
    /\ vc_p_pc = "p358"
    /\ start_flag # 0
    /\ vc_p_i' = 0
    /\ vc_p_pc' = IF 0 < NUM_MESSAGES THEN "p329" ELSE "p370"
    /\ UNCHANGED <<vc_buffer, vc_head, vc_tail, vc_wbuf, vc_p_head, vc_c_pc,
                   vc_c_i, vc_c_tail, vc_c_value, vc_sum, vc_m_pc,
                   vc_observed, start_flag, othersC>>

VC_C_Spin ==
    /\ vc_c_pc = "c376"
    /\ start_flag # 0
    /\ vc_sum' = 0 /\ vc_c_i' = 0
    /\ vc_c_pc' = IF 0 < NUM_MESSAGES THEN "c344" ELSE "c393"
    /\ UNCHANGED <<vc_buffer, vc_head, vc_tail, vc_wbuf, vc_p_pc, vc_p_i,
                   vc_p_head, vc_c_tail, vc_c_value, vc_m_pc, vc_observed,
                   start_flag, othersC>>

\* line 329: head = load(&q->head, relaxed), in the call spsc_enqueue(q, i)
\* of line 364
VC_P_LoadHead ==
    /\ vc_p_pc = "p329"
    /\ vc_p_head' = vc_head
    /\ vc_p_pc' = "p331"
    /\ UNCHANGED <<vc_buffer, vc_head, vc_tail, vc_wbuf, vc_p_i, vc_c_pc,
                   vc_c_i, vc_c_tail, vc_c_value, vc_sum, vc_m_pc,
                   vc_observed, start_flag, othersC>>

\* lines 330-335: next_head = (head + 1) & MASK; tail = load(&q->tail,
\* acquire); if (next_head == tail) return false, and line 364 calls again
VC_P_LoadTail ==
    /\ vc_p_pc = "p331"
    /\ vc_p_pc' = IF BitAnd(vc_p_head + 1, MASK) = vc_tail THEN "p329" ELSE "p336"
    /\ UNCHANGED <<vc_buffer, vc_head, vc_tail, vc_wbuf, vc_p_i, vc_p_head,
                   vc_c_pc, vc_c_i, vc_c_tail, vc_c_value, vc_sum, vc_m_pc,
                   vc_observed, start_flag, othersC>>

\* line 336: q->buffer[head] = value, a plain write
VC_P_WriteBuffer ==
    /\ vc_p_pc = "p336"
    /\ vc_wbuf' = Append(vc_wbuf, <<vc_p_head, vc_p_i>>)
    /\ vc_p_pc' = "p337"
    /\ UNCHANGED <<vc_buffer, vc_head, vc_tail, vc_p_i, vc_p_head, vc_c_pc,
                   vc_c_i, vc_c_tail, vc_c_value, vc_sum, vc_m_pc,
                   vc_observed, start_flag, othersC>>

\* lines 337-338, 362: store(&q->head, next_head, release); return true;
\* i++ and the loop test
VC_P_StoreHead ==
    /\ vc_p_pc = "p337"
    /\ vc_buffer' = ApplyAll(vc_buffer, vc_wbuf)
    /\ vc_wbuf' = <<>>
    /\ vc_head' = BitAnd(vc_p_head + 1, MASK)
    /\ vc_p_i' = vc_p_i + 1
    /\ vc_p_pc' = IF vc_p_i + 1 < NUM_MESSAGES THEN "p329" ELSE "p370"
    /\ UNCHANGED <<vc_tail, vc_p_head, vc_c_pc, vc_c_i, vc_c_tail, vc_c_value,
                   vc_sum, vc_m_pc, vc_observed, start_flag, othersC>>

\* a pending plain write reaches memory
VC_Drain ==
    /\ vc_wbuf # <<>>
    /\ vc_buffer' = ApplyWrite(vc_buffer, Head(vc_wbuf))
    /\ vc_wbuf' = Tail(vc_wbuf)
    /\ UNCHANGED <<vc_head, vc_tail, vc_p_pc, vc_p_i, vc_p_head, vc_c_pc,
                   vc_c_i, vc_c_tail, vc_c_value, vc_sum, vc_m_pc,
                   vc_observed, start_flag, othersC>>

spsc_enqueue == VC_P_LoadHead \/ VC_P_LoadTail \/ VC_P_WriteBuffer \/ VC_P_StoreHead

VC_producer == VC_P_Spin \/ spsc_enqueue

\* line 344: int tail = load(&q->tail, relaxed), in the call
\* spsc_dequeue(q, &value) of line 386.  The cursor is at most MASK, which
\* int represents.
VC_C_LoadTail ==
    /\ vc_c_pc = "c344"
    /\ vc_c_tail' = vc_tail
    /\ vc_c_pc' = "c345"
    /\ UNCHANGED <<vc_buffer, vc_head, vc_tail, vc_wbuf, vc_p_pc, vc_p_i,
                   vc_p_head, vc_c_i, vc_c_value, vc_sum, vc_m_pc,
                   vc_observed, start_flag, othersC>>

\* faulty variant: the emptiness test is left out
VC_C_LoadHead_NoCheck ==
    /\ vc_c_pc = "c345"
    /\ vc_c_pc' = "c348"
    /\ UNCHANGED <<vc_buffer, vc_head, vc_tail, vc_wbuf, vc_p_pc, vc_p_i,
                   vc_p_head, vc_c_i, vc_c_tail, vc_c_value, vc_sum, vc_m_pc,
                   vc_observed, start_flag, othersC>>

\* lines 345-347: int head = load(&q->head, acquire); if (head == tail)
\* return false, and line 386 calls again
VC_C_LoadHead ==
    /\ vc_c_pc = "c345"
    /\ vc_c_pc' = IF vc_head = vc_c_tail THEN "c344" ELSE "c348"
    /\ UNCHANGED <<vc_buffer, vc_head, vc_tail, vc_wbuf, vc_p_pc, vc_p_i,
                   vc_p_head, vc_c_i, vc_c_tail, vc_c_value, vc_sum, vc_m_pc,
                   vc_observed, start_flag, othersC>>

\* line 348: *value = q->buffer[tail]; a slot never written holds anything
VC_C_ReadBuffer ==
    /\ vc_c_pc = "c348"
    /\ \E v \in (IF vc_buffer[vc_c_tail] = <<>> THEN AnyInt
                 ELSE {vc_buffer[vc_c_tail][1]}) : vc_c_value' = <<v>>
    /\ vc_c_pc' = "c350"
    /\ UNCHANGED <<vc_buffer, vc_head, vc_tail, vc_wbuf, vc_p_pc, vc_p_i,
                   vc_p_head, vc_c_i, vc_c_tail, vc_sum, vc_m_pc,
                   vc_observed, start_flag, othersC>>

\* lines 349-351, 390, 383: next_tail = (tail + 1) & MASK; store(&q->tail,
\* next_tail, release); return true; sum += value; i++ and the loop test
VC_C_StoreTail ==
    /\ vc_c_pc = "c350"
    /\ vc_tail' = BitAnd(vc_c_tail + 1, MASK)
    /\ vc_sum' = vc_sum + vc_c_value[1]
    /\ vc_c_i' = vc_c_i + 1
    /\ vc_c_pc' = IF vc_c_i + 1 < NUM_MESSAGES THEN "c344" ELSE "c393"
    /\ UNCHANGED <<vc_buffer, vc_head, vc_wbuf, vc_p_pc, vc_p_i, vc_p_head,
                   vc_c_tail, vc_c_value, vc_m_pc, vc_observed, start_flag,
                   othersC>>

spsc_dequeue == VC_C_LoadTail \/ VC_C_LoadHead \/ VC_C_ReadBuffer \/ VC_C_StoreTail

VC_consumer == VC_C_Spin \/ spsc_dequeue

NextC == run_variant_c \/ VC_producer \/ VC_consumer \/ VC_Drain

SpecC == Init /\ [][NextC]_vars

\* ------------------------------------------------ layout of spsc_queue_t
CACHE_LINE_SIZE == 64
ALIGN_HEAD == 64
ALIGN_TAIL == 64
BUILD_QUEUE_SIZE == 1024
SizeofInt == 4
SizeofSizeT == 8

\* the ALIGN_HEAD / ALIGN_TAIL a build may define: 0 (no alignas, lines
\* 43-53) or a power of two not below the member's own alignment
Alignments == {0} \cup {Pow2(k) : k \in 3 .. MaxAlignBits}

BufferLens == (1 .. MaxBufferLen) \cup {BUILD_QUEUE_SIZE}

\* the alignment of an atomic_size_t member declared with alignas(al)
MemberAlign(al) == IF al = 0 THEN SizeofSizeT ELSE al

\* the first multiple of a that is not below x
RoundUp(x, a) == ((x + a - 1) \div a) * a

Max2(a, b) == IF a >= b THEN a ELSE b

othersL == <<qvars, pvars, cvars, hvars, m_pc, start_flag, vcvars, avars, bvars, bbvars, dvars, mpvars, rvars, nvars, tpvars, eqvars, svars>>

\* a build: the state before the compiler lays the struct out
InitLayout ==
    /\ Init07 /\ start_flag = 0 /\ InitC /\ InitA /\ InitB /\ InitBB /\ InitD /\ InitMP /\ InitR /\ InitN /\ InitTP /\ InitEQ /\ InitS
    /\ l_pc = "buffer"
    /\ l_n \in BufferLens /\ l_ah \in Alignments /\ l_at \in Alignments
    /\ l_end = 0 /\ l_off_head = 0 /\ l_off_tail = 0 /\ l_size = 0

\* line 62: int buffer[QUEUE_SIZE], at offset 0
L_PlaceBuffer ==
    /\ l_pc = "buffer"
    /\ l_end' = SizeofInt * l_n
    /\ l_pc' = "head"
    /\ UNCHANGED <<l_n, l_ah, l_at, l_off_head, l_off_tail, l_size, othersL>>

\* line 63: HEAD_ALIGN_SPEC atomic_size_t head, at the first offset not
\* below the end of buffer that its alignment divides
L_PlaceHead ==
    /\ l_pc = "head"
    /\ l_off_head' = RoundUp(l_end, MemberAlign(l_ah))
    /\ l_end' = l_off_head' + SizeofSizeT
    /\ l_pc' = "tail"
    /\ UNCHANGED <<l_n, l_ah, l_at, l_off_tail, l_size, othersL>>

\* faulty variant: tail is packed right behind head
L_PlaceTail_Packed ==
    /\ l_pc = "tail"
    /\ l_off_tail' = l_end
    /\ l_end' = l_off_tail' + SizeofSizeT
    /\ l_pc' = "size"
    /\ UNCHANGED <<l_n, l_ah, l_at, l_off_head, l_size, othersL>>

\* line 64: TAIL_ALIGN_SPEC atomic_size_t tail
L_PlaceTail ==
    /\ l_pc = "tail"
    /\ l_off_tail' = RoundUp(l_end, MemberAlign(l_at))
    /\ l_end' = l_off_tail' + SizeofSizeT
    /\ l_pc' = "size"
    /\ UNCHANGED <<l_n, l_ah, l_at, l_off_head, l_size, othersL>>

\* line 65: sizeof(spsc_queue_t), a multiple of the struct's alignment
L_Size ==
    /\ l_pc = "size"
    /\ l_size' = RoundUp(l_end, Max2(SizeofInt, Max2(MemberAlign(l_ah), MemberAlign(l_at))))
    /\ l_pc' = "done"
    /\ UNCHANGED <<l_n, l_ah, l_at, l_end, l_off_head, l_off_tail, othersL>>

NextLayout == L_PlaceBuffer \/ L_PlaceHead \/ L_PlaceTail \/ L_Size

SpecLayout == InitLayout /\ [][NextLayout]_vars

\* ------------------------------------------------- capstone, Variant A
othersA == <<qvars, pvars, cvars, hvars, m_pc, vcvars, lvars, bvars, bbvars, dvars, mpvars, rvars, nvars, tpvars, eqvars, svars>>

\* lines 144-147: pthread_mutex_init; shared_counter = 0; start_flag = 0
A_M_Init ==
    /\ a_m_pc = "a144"
    /\ mutex' = 0 /\ shared_counter' = 0 /\ start_flag' = 0
    /\ a_m_i' = 0
    /\ a_m_pc' = "a156"
    /\ UNCHANGED <<ttas_locked, a_pc, a_i, a_tmp, othersA>>

\* lines 154-157: for (i..) pthread_create(&threads[i], .., variant_a_worker, ..)
A_M_Create ==
    /\ a_m_pc = "a156"
    /\ IF a_m_i < NUM_THREADS
       THEN /\ a_pc' = [a_pc EXCEPT ![a_m_i + 1] = "w124"]
            /\ a_m_i' = a_m_i + 1
            /\ a_m_pc' = a_m_pc
       ELSE /\ a_m_pc' = "a158"
            /\ UNCHANGED <<a_pc, a_m_i>>
    /\ UNCHANGED <<shared_counter, mutex, ttas_locked, a_i, a_tmp, start_flag, othersA>>

\* line 158: atomic_store_explicit(&start_flag, 1, release)
A_M_Start ==
    /\ a_m_pc = "a158"
    /\ start_flag' = 1
    /\ a_m_i' = 0
    /\ a_m_pc' = "a162"
    /\ UNCHANGED <<shared_counter, mutex, ttas_locked, a_pc, a_i, a_tmp, othersA>>

\* lines 160-163: for (i..) pthread_join(threads[i], NULL)
A_M_Join ==
    /\ a_m_pc = "a162"
    /\ IF a_m_i < NUM_THREADS
       THEN /\ a_pc[a_m_i + 1] = "done"
            /\ a_m_i' = a_m_i + 1
            /\ a_m_pc' = a_m_pc
       ELSE /\ a_m_pc' = "a166"
            /\ a_m_i' = a_m_i
    /\ UNCHANGED <<shared_counter, mutex, ttas_locked, a_pc, a_i, a_tmp,
                   start_flag, othersA>>

\* lines 166-171: the result is printed; pthread_mutex_destroy; start_flag = 0
A_M_End ==
    /\ a_m_pc = "a166"
    /\ start_flag' = 0
    /\ a_m_pc' = "t99"
    /\ UNCHANGED <<shared_counter, mutex, ttas_locked, a_pc, a_i, a_tmp, a_m_i, othersA>>

run_variant_a == A_M_Init \/ A_M_Create \/ A_M_Start \/ A_M_Join \/ A_M_End

\* lines 124-129: while (start_flag == 0) CPU_PAUSE(); then the for loop
A_W_Spin(t) ==
    /\ a_pc[t] = "w124"
    /\ start_flag # 0
    /\ a_i' = [a_i EXCEPT ![t] = 0]
    /\ a_pc' = [a_pc EXCEPT ![t] = IF 0 < INCREMENTS THEN "w131" ELSE "done"]
    /\ UNCHANGED <<shared_counter, mutex, ttas_locked, a_tmp, a_m_pc, a_m_i,
                   start_flag, othersA>>

\* faulty variant: the worker goes on without owning the mutex
A_W_Lock_NoWait(t) ==
    /\ a_pc[t] = "w131"
    /\ a_pc' = [a_pc EXCEPT ![t] = "w132r"]
    /\ UNCHANGED <<shared_counter, mutex, ttas_locked, a_i, a_tmp, a_m_pc, a_m_i,
                   start_flag, othersA>>

\* line 131: pthread_mutex_lock(&mutex) returns once the mutex is acquired
A_W_Lock(t) ==
    /\ a_pc[t] = "w131"
    /\ mutex = 0
    /\ mutex' = t
    /\ a_pc' = [a_pc EXCEPT ![t] = "w132r"]
    /\ UNCHANGED <<shared_counter, ttas_locked, a_i, a_tmp, a_m_pc, a_m_i,
                   start_flag, othersA>>

\* line 132: shared_counter++, the load
A_W_Read(t) ==
    /\ a_pc[t] = "w132r"
    /\ a_tmp' = [a_tmp EXCEPT ![t] = shared_counter]
    /\ a_pc' = [a_pc EXCEPT ![t] = "w132w"]
    /\ UNCHANGED <<shared_counter, mutex, ttas_locked, a_i, a_m_pc, a_m_i,
                   start_flag, othersA>>

\* line 132: shared_counter++, the store
A_W_Write(t) ==
    /\ a_pc[t] = "w132w"
    /\ shared_counter' = a_tmp[t] + 1
    /\ a_pc' = [a_pc EXCEPT ![t] = "w133"]
    /\ UNCHANGED <<mutex, ttas_locked, a_i, a_tmp, a_m_pc, a_m_i, start_flag, othersA>>

\* lines 133, 129: pthread_mutex_unlock(&mutex); i++ and the loop test
A_W_Unlock(t) ==
    /\ a_pc[t] = "w133"
    /\ mutex' = 0
    /\ a_i' = [a_i EXCEPT ![t] = a_i[t] + 1]
    /\ a_pc' = [a_pc EXCEPT ![t] = IF a_i[t] + 1 < INCREMENTS THEN "w131" ELSE "done"]
    /\ UNCHANGED <<shared_counter, ttas_locked, a_tmp, a_m_pc, a_m_i, start_flag, othersA>>

variant_a_worker ==
    \/ \E t \in Workers : A_W_Spin(t)
    \/ \E t \in Workers : A_W_Lock(t)
    \/ \E t \in Workers : A_W_Read(t)
    \/ \E t \in Workers : A_W_Write(t)
    \/ \E t \in Workers : A_W_Unlock(t)

\* lines 99, 104: ttas_spinlock_init(&lock) (line 55: locked = false);
\* shared_counter = 0
TT_M_Init ==
    /\ a_m_pc = "t99"
    /\ ttas_locked' = FALSE /\ shared_counter' = 0
    /\ a_m_i' = 0
    /\ a_m_pc' = "t107"
    /\ UNCHANGED <<mutex, a_pc, a_i, a_tmp, start_flag, othersA>>

\* lines 105-108: for (i..) pthread_create(.., variant_a_ttas_worker, &lock)
TT_M_Create ==
    /\ a_m_pc = "t107"
    /\ IF a_m_i < NUM_THREADS
       THEN /\ a_pc' = [a_pc EXCEPT ![a_m_i + 1] = "t63"]
            /\ a_m_i' = a_m_i + 1
            /\ a_m_pc' = a_m_pc
       ELSE /\ a_m_pc' = "t111"
            /\ a_m_i' = 0
            /\ a_pc' = a_pc
    /\ UNCHANGED <<shared_counter, mutex, ttas_locked, a_i, a_tmp, start_flag, othersA>>

\* lines 109-112: for (i..) pthread_join(threads[i], NULL)
TT_M_Join ==
    /\ a_m_pc = "t111"
    /\ IF a_m_i < NUM_THREADS
       THEN /\ a_pc[a_m_i + 1] = "done"
            /\ a_m_i' = a_m_i + 1
            /\ a_m_pc' = a_m_pc
       ELSE /\ a_m_pc' = "t114"
            /\ a_m_i' = a_m_i
    /\ UNCHANGED <<shared_counter, mutex, ttas_locked, a_pc, a_i, a_tmp,
                   start_flag, othersA>>

run_variant_a_ttas == TT_M_Init \/ TT_M_Create \/ TT_M_Join

\* lines 61-63, 71: the test of ttas_lock; while locked is set the worker
\* pauses and loads again
TT_W_Test(t) ==
    /\ a_pc[t] = "t63"
    /\ ~ttas_locked
    /\ a_pc' = [a_pc EXCEPT ![t] = "t66"]
    /\ UNCHANGED <<shared_counter, mutex, ttas_locked, a_i, a_tmp, a_m_pc, a_m_i,
                   start_flag, othersA>>

\* lines 65-71, 86: compare_exchange_weak(&lock->locked, &expected, true):
\* it fails when locked is set and may fail when it is not; on success the
\* worker enters its for loop
TT_W_CAS(t) ==
    /\ a_pc[t] = "t66"
    /\ \/ /\ ~ttas_locked
          /\ ttas_locked' = TRUE
          /\ a_i' = [a_i EXCEPT ![t] = 0]
          /\ a_pc' = [a_pc EXCEPT ![t] = IF 0 < INCREMENTS THEN "t88r" ELSE "t90"]
       \/ /\ a_pc' = [a_pc EXCEPT ![t] = "t63"]
          /\ UNCHANGED <<ttas_locked, a_i>>
    /\ UNCHANGED <<shared_counter, mutex, a_tmp, a_m_pc, a_m_i, start_flag, othersA>>

\* line 88: shared_counter++, the load
TT_W_Read(t) ==
    /\ a_pc[t] = "t88r"
    /\ a_tmp' = [a_tmp EXCEPT ![t] = shared_counter]
    /\ a_pc' = [a_pc EXCEPT ![t] = "t88w"]
    /\ UNCHANGED <<shared_counter, mutex, ttas_locked, a_i, a_m_pc, a_m_i,
                   start_flag, othersA>>

\* lines 88, 86: shared_counter++, the store; i++ and the loop test
TT_W_Write(t) ==
    /\ a_pc[t] = "t88w"
    /\ shared_counter' = a_tmp[t] + 1
    /\ a_i' = [a_i EXCEPT ![t] = a_i[t] + 1]
    /\ a_pc' = [a_pc EXCEPT ![t] = IF a_i[t] + 1 < INCREMENTS THEN "t88r" ELSE "t90"]
    /\ UNCHANGED <<mutex, ttas_locked, a_tmp, a_m_pc, a_m_i, start_flag, othersA>>

\* lines 90-91 (line 78): ttas_unlock stores false; return NULL
TT_W_Unlock(t) ==
    /\ a_pc[t] = "t90"
    /\ ttas_locked' = FALSE
    /\ a_pc' = [a_pc EXCEPT ![t] = "done"]
    /\ UNCHANGED <<shared_counter, mutex, a_i, a_tmp, a_m_pc, a_m_i, start_flag, othersA>>

variant_a_ttas_worker ==
    \/ \E t \in Workers : TT_W_Test(t)
    \/ \E t \in Workers : TT_W_CAS(t)
    \/ \E t \in Workers : TT_W_Read(t)
    \/ \E t \in Workers : TT_W_Write(t)
    \/ \E t \in Workers : TT_W_Unlock(t)

\* main, lines 433-434: run_variant_a(); run_variant_a_ttas()
NextA ==
    \/ run_variant_a \/ variant_a_worker
    \/ run_variant_a_ttas \/ variant_a_ttas_worker

SpecA == Init /\ [][NextA]_vars

\* ------------------------------------------------------------- barrier
othersB == <<qvars, pvars, cvars, hvars, m_pc, start_flag, vcvars, lvars, avars, bbvars, dvars, mpvars, rvars, nvars, tpvars, eqvars, svars>>

\* lines 29-35 (called at line 93): barrier_init(&barrier, NUM_THREADS)
barrier_init ==
    /\ b_m_pc = "m93"
    /\ b_mutex' = 0 /\ b_waiting' = {}
    /\ b_count' = 0 /\ b_threshold' = BARRIER_THREADS /\ b_serial' = 0
    /\ b_m_i' = 0
    /\ b_m_pc' = "m99"
    /\ UNCHANGED <<b_pc, b_phase, b_my_serial, othersB>>

\* lines 99-103: for (i..) pthread_create(&threads[i], NULL, worker, &args[i])
B_M_Create ==
    /\ b_m_pc = "m99"
    /\ IF b_m_i < BARRIER_THREADS
       THEN /\ b_pc' = [b_pc EXCEPT ![b_m_i + 1] = "b72"]
            /\ b_m_i' = b_m_i + 1
            /\ b_m_pc' = b_m_pc
       ELSE /\ b_m_pc' = "m105"
            /\ b_m_i' = 0
            /\ b_pc' = b_pc
    /\ UNCHANGED <<b_mutex, b_waiting, b_count, b_threshold, b_serial,
                   b_phase, b_my_serial, othersB>>

\* lines 105-107: for (i..) pthread_join(threads[i], NULL)
B_M_Join ==
    /\ b_m_pc = "m105"
    /\ IF b_m_i < BARRIER_THREADS
       THEN /\ b_pc[b_m_i + 1] = "done"
            /\ b_m_i' = b_m_i + 1
            /\ b_m_pc' = b_m_pc
       ELSE /\ b_m_pc' = "m110"
            /\ b_m_i' = b_m_i
    /\ UNCHANGED <<b_mutex, b_waiting, b_count, b_threshold, b_serial, b_pc,
                   b_phase, b_my_serial, othersB>>

\* lines 72-79: the loop test, the phase's work, and the call of barrier_wait
B_W_For(t) ==
    /\ b_pc[t] = "b72"
    /\ b_pc' = [b_pc EXCEPT ![t] = IF b_phase[t] < NUM_PHASES THEN "b43" ELSE "done"]
    /\ UNCHANGED <<b_mutex, b_waiting, b_count, b_threshold, b_serial,
                   b_phase, b_my_serial, b_m_pc, b_m_i, othersB>>

\* line 43: pthread_mutex_lock(&barrier->mutex)
B_Lock(t) ==
    /\ b_pc[t] = "b43"
    /\ b_mutex = 0
    /\ b_mutex' = t
    /\ b_pc' = [b_pc EXCEPT ![t] = "b45"]
    /\ UNCHANGED <<b_waiting, b_count, b_threshold, b_serial, b_phase,
                   b_my_serial, b_m_pc, b_m_i, othersB>>

\* lines 45-46: my_serial = barrier->serial; barrier->count++
B_Arrive(t) ==
    /\ b_pc[t] = "b45"
    /\ b_my_serial' = [b_my_serial EXCEPT ![t] = b_serial]
    /\ b_count' = b_count + 1
    /\ b_pc' = [b_pc EXCEPT ![t] = "b48"]
    /\ UNCHANGED <<b_mutex, b_waiting, b_threshold, b_serial, b_phase,
                   b_m_pc, b_m_i, othersB>>

\* faulty variant: the last thread does not broadcast
B_Last_NoBroadcast(t) ==
    /\ b_pc[t] = "b48"
    /\ IF b_count = b_threshold
       THEN /\ b_count' = 0
            /\ b_serial' = b_serial + 1
            /\ b_waiting' = b_waiting
            /\ b_pc' = [b_pc EXCEPT ![t] = "b60"]
       ELSE /\ b_pc' = [b_pc EXCEPT ![t] = "b55"]
            /\ UNCHANGED <<b_count, b_serial, b_waiting>>
    /\ UNCHANGED <<b_mutex, b_threshold, b_phase, b_my_serial, b_m_pc, b_m_i, othersB>>

\* faulty variant: the last thread advances serial but leaves count as it is
B_Last_KeepCount(t) ==
    /\ b_pc[t] = "b48"
    /\ IF b_count = b_threshold
       THEN /\ b_count' = b_count
            /\ b_serial' = b_serial + 1
            /\ b_waiting' = {}
            /\ b_pc' = [b_pc EXCEPT ![t] = "b60"]
       ELSE /\ b_pc' = [b_pc EXCEPT ![t] = "b55"]
            /\ UNCHANGED <<b_count, b_serial, b_waiting>>
    /\ UNCHANGED <<b_mutex, b_threshold, b_phase, b_my_serial, b_m_pc, b_m_i, othersB>>

\* lines 48-53: the last thread resets count, advances serial and
\* broadcasts; any other goes on to wait
B_Last(t) ==
    /\ b_pc[t] = "b48"
    /\ IF b_count = b_threshold
       THEN /\ b_count' = 0
            /\ b_serial' = b_serial + 1
            /\ b_waiting' = {}
            /\ b_pc' = [b_pc EXCEPT ![t] = "b60"]
       ELSE /\ b_pc' = [b_pc EXCEPT ![t] = "b55"]
            /\ UNCHANGED <<b_count, b_serial, b_waiting>>
    /\ UNCHANGED <<b_mutex, b_threshold, b_phase, b_my_serial, b_m_pc, b_m_i, othersB>>

\* line 55: while (my_serial == barrier->serial)
B_While(t) ==
    /\ b_pc[t] = "b55"
    /\ b_pc' = [b_pc EXCEPT ![t] = IF b_my_serial[t] = b_serial THEN "b56" ELSE "b60"]
    /\ UNCHANGED <<b_mutex, b_waiting, b_count, b_threshold, b_serial,
                   b_phase, b_my_serial, b_m_pc, b_m_i, othersB>>

\* line 56: pthread_cond_wait releases the mutex and blocks on cond
B_CondWait(t) ==
    /\ b_pc[t] = "b56"
    /\ b_mutex' = 0
    /\ b_waiting' = b_waiting \cup {t}
    /\ b_pc' = [b_pc EXCEPT ![t] = "b56w"]
    /\ UNCHANGED <<b_count, b_threshold, b_serial, b_phase, b_my_serial,
                   b_m_pc, b_m_i, othersB>>

\* faulty variant: the thread leaves the barrier when pthread_cond_wait returns
B_Wake_NoRecheck(t) ==
    /\ b_pc[t] = "b56w"
    /\ b_mutex = 0
    /\ b_mutex' = t
    /\ b_waiting' = b_waiting \ {t}
    /\ b_pc' = [b_pc EXCEPT ![t] = "b60"]
    /\ UNCHANGED <<b_count, b_threshold, b_serial, b_phase, b_my_serial,
                   b_m_pc, b_m_i, othersB>>

\* line 56: pthread_cond_wait returns, holding the mutex again, after the
\* broadcast has taken the thread off cond, or spuriously while it is
\* still on it; the loop test of line 55 follows
B_Wake(t) ==
    /\ b_pc[t] = "b56w"
    /\ b_mutex = 0
    /\ b_mutex' = t
    /\ b_waiting' = b_waiting \ {t}
    /\ b_pc' = [b_pc EXCEPT ![t] = "b55"]
    /\ UNCHANGED <<b_count, b_threshold, b_serial, b_phase, b_my_serial,
                   b_m_pc, b_m_i, othersB>>

\* lines 60-61: pthread_mutex_unlock(&barrier->mutex); barrier_wait returns
B_Unlock(t) ==
    /\ b_pc[t] = "b60"
    /\ b_mutex' = 0
    /\ b_pc' = [b_pc EXCEPT ![t] = "b82"]
    /\ UNCHANGED <<b_waiting, b_count, b_threshold, b_serial, b_phase,
                   b_my_serial, b_m_pc, b_m_i, othersB>>

\* lines 82, 72: "passed barrier (phase p)" is printed; phase++
B_W_Passed(t) ==
    /\ b_pc[t] = "b82"
    /\ b_phase' = [b_phase EXCEPT ![t] = b_phase[t] + 1]
    /\ b_pc' = [b_pc EXCEPT ![t] = "b72"]
    /\ UNCHANGED <<b_mutex, b_waiting, b_count, b_threshold, b_serial,
                   b_my_serial, b_m_pc, b_m_i, othersB>>

barrier_wait ==
    \/ \E t \in BThreads : B_Lock(t)
    \/ \E t \in BThreads : B_Arrive(t)
    \/ \E t \in BThreads : B_Last(t)
    \/ \E t \in BThreads : B_While(t)
    \/ \E t \in BThreads : B_CondWait(t)
    \/ \E t \in BThreads : B_Wake(t)
    \/ \E t \in BThreads : B_Unlock(t)

worker ==
    \/ \E t \in BThreads : B_W_For(t)
    \/ \E t \in BThreads : B_W_Passed(t)
    \/ barrier_wait

NextB == barrier_init \/ B_M_Create \/ B_M_Join \/ worker

SpecB == Init /\ [][NextB]_vars

\* ------------------------------------------------------- bounded buffer
othersBB == <<qvars, pvars, cvars, hvars, m_pc, start_flag, vcvars, lvars, avars, bvars, dvars, mpvars, rvars, nvars, tpvars, eqvars, svars>>

\* pthread_cond_signal(cv): when threads are blocked on cv one of them is
\* taken off it; the sets cv may become
Signal(cv) == IF cv = {} THEN {cv} ELSE {cv \ {w} : w \in cv}

\* line 37: pthread_mutex_lock(&bb.mutex)
BB_P_Lock(t) ==
    /\ bp_pc[t] = "p37"
    /\ bb_mutex = "free"
    /\ bb_mutex' = "held"
    /\ bp_pc' = [bp_pc EXCEPT ![t] = "p39"]
    /\ UNCHANGED <<bb_buffer, bb_count, bb_in, bb_out, bb_not_full, bb_not_empty,
                   produced_count, consumed_count, bc_pc, bb_m_pc, bb_m_i, othersBB>>

\* lines 39-42: if (produced_count >= NUM_ITEMS) { unlock; break; }
BB_P_Check(t) ==
    /\ bp_pc[t] = "p39"
    /\ IF produced_count >= NUM_ITEMS
       THEN /\ bb_mutex' = "free"
            /\ bp_pc' = [bp_pc EXCEPT ![t] = "p65"]
       ELSE /\ bb_mutex' = bb_mutex
            /\ bp_pc' = [bp_pc EXCEPT ![t] = "p45"]
    /\ UNCHANGED <<bb_buffer, bb_count, bb_in, bb_out, bb_not_full, bb_not_empty,
                   produced_count, consumed_count, bc_pc, bb_m_pc, bb_m_i, othersBB>>

\* lines 45-46: while (bb.count >= BUFFER_SIZE) pthread_cond_wait(&bb.not_full,
\* &bb.mutex): the wait releases the mutex and blocks
BB_P_While(t) ==
    /\ bp_pc[t] = "p45"
    /\ IF bb_count >= BUFFER_SIZE
       THEN /\ bb_mutex' = "free"
            /\ bb_not_full' = bb_not_full \cup {t}
            /\ bp_pc' = [bp_pc EXCEPT ![t] = "p46"]
       ELSE /\ bp_pc' = [bp_pc EXCEPT ![t] = "p50"]
            /\ UNCHANGED <<bb_mutex, bb_not_full>>
    /\ UNCHANGED <<bb_buffer, bb_count, bb_in, bb_out, bb_not_empty,
                   produced_count, consumed_count, bc_pc, bb_m_pc, bb_m_i, othersBB>>

\* line 46: pthread_cond_wait returns holding the mutex, after a signal
\* has taken the thread off not_full or spuriously
BB_P_Wake(t) ==
    /\ bp_pc[t] = "p46"
    /\ bb_mutex = "free"
    /\ bb_mutex' = "held"
    /\ bb_not_full' = bb_not_full \ {t}
    /\ bp_pc' = [bp_pc EXCEPT ![t] = "p45"]
    /\ UNCHANGED <<bb_buffer, bb_count, bb_in, bb_out, bb_not_empty,
                   produced_count, consumed_count, bc_pc, bb_m_pc, bb_m_i, othersBB>>

\* lines 50-60: item = ++produced_count; bb.buffer[bb.in] = item; in and
\* count advance; pthread_cond_signal(&bb.not_empty); unlock
BB_P_Produce(t) ==
    /\ bp_pc[t] = "p50"
    /\ produced_count' = produced_count + 1
    /\ bb_buffer' = [bb_buffer EXCEPT ![bb_in] = produced_count + 1]
    /\ bb_in' = (bb_in + 1) % BUFFER_SIZE
    /\ bb_count' = bb_count + 1
    /\ bb_not_empty' \in Signal(bb_not_empty)
    /\ bb_mutex' = "free"
    /\ bp_pc' = [bp_pc EXCEPT ![t] = "p37"]
    /\ UNCHANGED <<bb_out, bb_not_full, consumed_count, bc_pc, bb_m_pc, bb_m_i, othersBB>>

\* lines 65-66: pthread_cond_broadcast(&bb.not_empty); return NULL
BB_P_Exit(t) ==
    /\ bp_pc[t] = "p65"
    /\ bb_not_empty' = {}
    /\ bp_pc' = [bp_pc EXCEPT ![t] = "done"]
    /\ UNCHANGED <<bb_buffer, bb_count, bb_in, bb_out, bb_mutex, bb_not_full,
                   produced_count, consumed_count, bc_pc, bb_m_pc, bb_m_i, othersBB>>

BB_producer ==
    \/ \E t \in Producers : BB_P_Lock(t)
    \/ \E t \in Producers : BB_P_Check(t)
    \/ \E t \in Producers : BB_P_While(t)
    \/ \E t \in Producers : BB_P_Wake(t)
    \/ \E t \in Producers : BB_P_Produce(t)
    \/ \E t \in Producers : BB_P_Exit(t)

\* line 73: pthread_mutex_lock(&bb.mutex)
BB_C_Lock(t) ==
    /\ bc_pc[t] = "c73"
    /\ bb_mutex = "free"
    /\ bb_mutex' = "held"
    /\ bc_pc' = [bc_pc EXCEPT ![t] = "c76"]
    /\ UNCHANGED <<bb_buffer, bb_count, bb_in, bb_out, bb_not_full, bb_not_empty,
                   produced_count, consumed_count, bp_pc, bb_m_pc, bb_m_i, othersBB>>

\* lines 76-77: while (bb.count == 0 && consumed_count < NUM_ITEMS)
\* pthread_cond_wait(&bb.not_empty, &bb.mutex)
BB_C_While(t) ==
    /\ bc_pc[t] = "c76"
    /\ IF bb_count = 0 /\ consumed_count < NUM_ITEMS
       THEN /\ bb_mutex' = "free"
            /\ bb_not_empty' = bb_not_empty \cup {t}
            /\ bc_pc' = [bc_pc EXCEPT ![t] = "c77"]
       ELSE /\ bc_pc' = [bc_pc EXCEPT ![t] = "c80"]
            /\ UNCHANGED <<bb_mutex, bb_not_empty>>
    /\ UNCHANGED <<bb_buffer, bb_count, bb_in, bb_out, bb_not_full,
                   produced_count, consumed_count, bp_pc, bb_m_pc, bb_m_i, othersBB>>

\* line 77: pthread_cond_wait returns holding the mutex, after a signal or
\* broadcast has taken the thread off not_empty or spuriously
BB_C_Wake(t) ==
    /\ bc_pc[t] = "c77"
    /\ bb_mutex = "free"
    /\ bb_mutex' = "held"
    /\ bb_not_empty' = bb_not_empty \ {t}
    /\ bc_pc' = [bc_pc EXCEPT ![t] = "c76"]
    /\ UNCHANGED <<bb_buffer, bb_count, bb_in, bb_out, bb_not_full,
                   produced_count, consumed_count, bp_pc, bb_m_pc, bb_m_i, othersBB>>

\* lines 80-83: if (consumed_count >= NUM_ITEMS) { unlock; break; } and the
\* return of line 100
BB_C_Check(t) ==
    /\ bc_pc[t] = "c80"
    /\ IF consumed_count >= NUM_ITEMS
       THEN /\ bb_mutex' = "free"
            /\ bc_pc' = [bc_pc EXCEPT ![t] = "done"]
       ELSE /\ bb_mutex' = bb_mutex
            /\ bc_pc' = [bc_pc EXCEPT ![t] = "c86"]
    /\ UNCHANGED <<bb_buffer, bb_count, bb_in, bb_out, bb_not_full, bb_not_empty,
                   produced_count, consumed_count, bp_pc, bb_m_pc, bb_m_i, othersBB>>

\* lines 86-96: item = bb.buffer[bb.out]; out advances, count--,
\* consumed_count++; pthread_cond_signal(&bb.not_full); unlock
BB_C_Consume(t) ==
    /\ bc_pc[t] = "c86"
    /\ bb_out' = (bb_out + 1) % BUFFER_SIZE
    /\ bb_count' = bb_count - 1
    /\ consumed_count' = consumed_count + 1
    /\ bb_not_full' \in Signal(bb_not_full)
    /\ bb_mutex' = "free"
    /\ bc_pc' = [bc_pc EXCEPT ![t] = "c73"]
    /\ UNCHANGED <<bb_buffer, bb_in, bb_not_empty, produced_count, bp_pc,
                   bb_m_pc, bb_m_i, othersBB>>

BB_consumer ==
    \/ \E t \in Consumers : BB_C_Lock(t)
    \/ \E t \in Consumers : BB_C_While(t)
    \/ \E t \in Consumers : BB_C_Wake(t)
    \/ \E t \in Consumers : BB_C_Check(t)
    \/ \E t \in Consumers : BB_C_Consume(t)

\* lines 117-123: the producers are joined, then the consumers
BB_M_Join ==
    /\ bb_m_pc \in {"m117", "m121"}
    /\ IF bb_m_pc = "m117"
       THEN IF bb_m_i < NUM_PRODUCERS
            THEN /\ bp_pc[bb_m_i + 1] = "done"
                 /\ bb_m_i' = bb_m_i + 1
                 /\ bb_m_pc' = bb_m_pc
            ELSE /\ bb_m_i' = 0
                 /\ bb_m_pc' = "m121"
       ELSE IF bb_m_i < NUM_CONSUMERS
            THEN /\ bc_pc[bb_m_i + 1] = "done"
                 /\ bb_m_i' = bb_m_i + 1
                 /\ bb_m_pc' = bb_m_pc
            ELSE /\ bb_m_i' = bb_m_i
                 /\ bb_m_pc' = "m125"
    /\ UNCHANGED <<bb_buffer, bb_count, bb_in, bb_out, bb_mutex, bb_not_full,
                   bb_not_empty, produced_count, consumed_count, bp_pc, bc_pc,
                   othersBB>>

NextBB == BB_producer \/ BB_consumer \/ BB_M_Join

SpecBB == Init /\ [][NextBB]_vars

\* --------------------------------------------------------- lock ordering
othersD == <<qvars, pvars, cvars, hvars, m_pc, start_flag, vcvars, lvars, avars, bvars, bbvars, mpvars, rvars, nvars, tpvars, eqvars, svars>>

\* worker id transfers from accounts[id] to the other account (lines 47-51)
From(t) == t
To(t) == 1 - t

\* lines 25-26: the account locked first is the one with the lower id
First(t) == IF From(t) < To(t) THEN From(t) ELSE To(t)
Second(t) == IF From(t) < To(t) THEN To(t) ELSE From(t)

\* lines 44-51: the loop test; amount = 10 + (rand() % 40); transfer_safe
\* is called
D_For(t) ==
    /\ d_pc[t] = "d44"
    /\ IF d_i[t] < NUM_TRANSFERS
       THEN /\ \E a \in {10, 49} : d_amount' = [d_amount EXCEPT ![t] = a]
            /\ d_pc' = [d_pc EXCEPT ![t] = "d28"]
       ELSE /\ d_pc' = [d_pc EXCEPT ![t] = "done"]
            /\ d_amount' = d_amount
    /\ UNCHANGED <<d_balance, d_mutex, transfer_count, count_mutex, d_i, d_m_pc, othersD>>

\* faulty variant: each worker locks its own from account first
D_Lock_FromFirst(t) ==
    /\ d_pc[t] \in {"d28", "d29"}
    /\ LET a == IF d_pc[t] = "d28" THEN From(t) ELSE To(t)
       IN /\ d_mutex[a] = {}
          /\ d_mutex' = [d_mutex EXCEPT ![a] = {t}]
    /\ d_pc' = [d_pc EXCEPT ![t] = IF d_pc[t] = "d28" THEN "d29" ELSE "d31"]
    /\ UNCHANGED <<d_balance, transfer_count, count_mutex, d_i, d_amount, d_m_pc, othersD>>

\* lines 28-29: pthread_mutex_lock(&first->mutex), then
\* pthread_mutex_lock(&second->mutex); each returns once the mutex is free
D_Lock(t) ==
    /\ d_pc[t] \in {"d28", "d29"}
    /\ LET a == IF d_pc[t] = "d28" THEN First(t) ELSE Second(t)
       IN /\ d_mutex[a] = {}
          /\ d_mutex' = [d_mutex EXCEPT ![a] = {t}]
    /\ d_pc' = [d_pc EXCEPT ![t] = IF d_pc[t] = "d28" THEN "d29" ELSE "d31"]
    /\ UNCHANGED <<d_balance, transfer_count, count_mutex, d_i, d_amount, d_m_pc, othersD>>

\* lines 31-32: from->balance -= amount; to->balance += amount
D_Move(t) ==
    /\ d_pc[t] = "d31"
    /\ d_balance' = [d_balance EXCEPT ![From(t)] = @ - d_amount[t],
                                      ![To(t)] = @ + d_amount[t]]
    /\ d_pc' = [d_pc EXCEPT ![t] = "d37"]
    /\ UNCHANGED <<d_mutex, transfer_count, count_mutex, d_i, d_amount, d_m_pc, othersD>>

\* lines 37-38: pthread_mutex_unlock(&second->mutex), then
\* pthread_mutex_unlock(&first->mutex); transfer_safe returns
D_Unlock(t) ==
    /\ d_pc[t] \in {"d37", "d38"}
    /\ d_mutex' = [d_mutex EXCEPT
                     ![IF d_pc[t] = "d37" THEN Second(t) ELSE First(t)] = {}]
    /\ d_pc' = [d_pc EXCEPT ![t] = IF d_pc[t] = "d37" THEN "d38" ELSE "d53"]
    /\ UNCHANGED <<d_balance, transfer_count, count_mutex, d_i, d_amount, d_m_pc, othersD>>

\* line 53: pthread_mutex_lock(&count_mutex)
D_CountLock(t) ==
    /\ d_pc[t] = "d53"
    /\ count_mutex = {}
    /\ count_mutex' = {t}
    /\ d_pc' = [d_pc EXCEPT ![t] = "d54"]
    /\ UNCHANGED <<d_balance, d_mutex, transfer_count, d_i, d_amount, d_m_pc, othersD>>

\* lines 54-57, 44: transfer_count++; pthread_mutex_unlock(&count_mutex); i++
D_CountUnlock(t) ==
    /\ d_pc[t] = "d54"
    /\ transfer_count' = transfer_count + 1
    /\ count_mutex' = {}
    /\ d_i' = [d_i EXCEPT ![t] = d_i[t] + 1]
    /\ d_pc' = [d_pc EXCEPT ![t] = "d44"]
    /\ UNCHANGED <<d_balance, d_mutex, d_amount, d_m_pc, othersD>>

\* lines 76-80: both workers are joined
D_M_Join ==
    /\ d_m_pc = "m76"
    /\ \A t \in Accounts : d_pc[t] = "done"
    /\ d_m_pc' = "m80"
    /\ UNCHANGED <<d_balance, d_mutex, transfer_count, count_mutex, d_pc, d_i,
                   d_amount, othersD>>

D_worker(t) ==
    \/ D_For(t) \/ D_Lock(t) \/ D_Move(t) \/ D_Unlock(t)
    \/ D_CountLock(t) \/ D_CountUnlock(t)

NextD ==
    \/ \E t \in Accounts : D_For(t)
    \/ \E t \in Accounts : D_Lock(t)
    \/ \E t \in Accounts : D_Move(t)
    \/ \E t \in Accounts : D_Unlock(t)
    \/ \E t \in Accounts : D_CountLock(t)
    \/ \E t \in Accounts : D_CountUnlock(t)
    \/ D_M_Join

\* each worker, and main, keeps being scheduled
SpecD ==
    /\ Init /\ [][NextD]_vars
    /\ \A t \in Accounts : WF_vars(D_worker(t))
    /\ WF_vars(D_M_Join)

\* --------------------------------------------------- flag message passing
othersMP == <<qvars, pvars, cvars, hvars, m_pc, start_flag, vcvars, lvars, avars, bvars, bbvars, dvars, rvars, nvars, tpvars, eqvars, svars>>

\* lines 94-97 of test_version: data and flag are reset
MP_M_Reset ==
    /\ mp_m_pc = "m94"
    /\ mp_data' = Append(mp_data, 0)
    /\ mp_flag' = Append(mp_flag, [val |-> 0, view |-> Len(mp_data')])
    /\ mp_view' = [mp_view EXCEPT !["main"] = [d |-> Len(mp_data'), f |-> Len(mp_flag')]]
    /\ mp_m_pc' = "m100"
    /\ UNCHANGED <<mp_version, mp_p_pc, mp_c_pc, mp_value, othersMP>>

\* lines 100-101: the consumer is created, then the producer; what main did
\* before happens before the thread's first step
MP_M_Create ==
    /\ mp_m_pc \in {"m100", "m101"}
    /\ IF mp_m_pc = "m100"
       THEN /\ mp_c_pc' = "c63" /\ mp_p_pc' = mp_p_pc /\ mp_m_pc' = "m101"
            /\ mp_view' = [mp_view EXCEPT !["cons"] = mp_view["main"]]
       ELSE /\ mp_p_pc' = "p56" /\ mp_c_pc' = mp_c_pc /\ mp_m_pc' = "m103"
            /\ mp_view' = [mp_view EXCEPT !["prod"] = mp_view["main"]]
    /\ UNCHANGED <<mp_data, mp_flag, mp_version, mp_value, othersMP>>

\* lines 103-104: the producer is joined, then the consumer (what the thread
\* did happens before the join's return); main (lines 129-140) goes on to the
\* next version
MP_M_Join ==
    /\ mp_m_pc \in {"m103", "m104"}
    /\ LET t == IF mp_m_pc = "m103" THEN "prod" ELSE "cons"
       IN mp_view' = [mp_view EXCEPT !["main"] =
                        [d |-> Max2(mp_view["main"].d, mp_view[t].d),
                         f |-> Max2(mp_view["main"].f, mp_view[t].f)]]
    /\ IF mp_m_pc = "m103"
       THEN /\ mp_p_pc = "done"
            /\ mp_m_pc' = "m104"
            /\ UNCHANGED <<mp_version, mp_p_pc, mp_c_pc>>
       ELSE /\ mp_c_pc = "done"
            /\ IF mp_version < Len(Versions)
               THEN /\ mp_version' = mp_version + 1
                    /\ mp_m_pc' = "m94"
                    /\ mp_p_pc' = "nothread" /\ mp_c_pc' = "nothread"
               ELSE /\ mp_m_pc' = "m142"
                    /\ UNCHANGED <<mp_version, mp_p_pc, mp_c_pc>>
    /\ UNCHANGED <<mp_data, mp_flag, mp_value, othersMP>>

\* lines 37, 56 and 75: data is stored 42 (plain, seq_cst or relaxed)
MP_P_StoreData ==
    /\ mp_p_pc = "p56"
    /\ mp_data' = Append(mp_data, 42)
    /\ mp_view' = [mp_view EXCEPT !["prod"].d = Len(mp_data')]
    /\ mp_p_pc' = "p57"
    /\ UNCHANGED <<mp_flag, mp_version, mp_c_pc, mp_value, mp_m_pc, othersMP>>

\* faulty variant: flag is stored relaxed, carrying no position in data
MP_P_StoreFlag_Relaxed ==
    /\ mp_p_pc = "p57"
    /\ mp_flag' = Append(mp_flag, [val |-> 1, view |-> 1])
    /\ mp_view' = [mp_view EXCEPT !["prod"].f = Len(mp_flag')]
    /\ mp_p_pc' = "done"
    /\ UNCHANGED <<mp_data, mp_version, mp_c_pc, mp_value, mp_m_pc, othersMP>>

\* lines 38, 57 and 76: flag is stored 1; a seq_cst or release store
\* carries the producer's position in data, a plain store none
MP_P_StoreFlag ==
    /\ mp_p_pc = "p57"
    /\ mp_flag' = Append(mp_flag,
                     [val |-> 1,
                      view |-> IF Versions[mp_version] = "broken" THEN 1
                               ELSE mp_view["prod"].d])
    /\ mp_view' = [mp_view EXCEPT !["prod"].f = Len(mp_flag')]
    /\ mp_p_pc' = "done"
    /\ UNCHANGED <<mp_data, mp_version, mp_c_pc, mp_value, mp_m_pc, othersMP>>

\* the stores thread t may read from an object of n stores: any from its
\* position on; a seq_cst load reads the last
Readable(t, pos, n) ==
    IF Versions[mp_version] = "seqcst" THEN {n} ELSE pos .. n

\* lines 45, 63 and 82: the spin loop's load of flag; a seq_cst or acquire
\* load takes over the position the store read carries, a plain load none
MP_C_LoadFlag ==
    /\ mp_c_pc = "c63"
    /\ \E i \in Readable("cons", mp_view["cons"].f, Len(mp_flag)) :
        /\ mp_view' = [mp_view EXCEPT !["cons"] =
                         [d |-> IF Versions[mp_version] = "broken"
                                THEN mp_view["cons"].d
                                ELSE Max2(mp_view["cons"].d, mp_flag[i].view),
                          f |-> i]]
        /\ mp_c_pc' = IF mp_flag[i].val = 0 THEN "c63" ELSE "c66"
    /\ UNCHANGED <<mp_data, mp_flag, mp_version, mp_p_pc, mp_value, mp_m_pc, othersMP>>

\* lines 49, 66 and 85: value = data (plain, seq_cst or relaxed)
MP_C_LoadData ==
    /\ mp_c_pc = "c66"
    /\ \E i \in Readable("cons", mp_view["cons"].d, Len(mp_data)) :
        /\ mp_view' = [mp_view EXCEPT !["cons"].d = i]
        /\ mp_value' = mp_data[i]
        /\ mp_c_pc' = "c68"
    /\ UNCHANGED <<mp_data, mp_flag, mp_version, mp_p_pc, mp_m_pc, othersMP>>

\* lines 67-69 and 86-88: assert(value == 42), which the broken version
\* does not have (lines 49-50)
MP_C_Assert ==
    /\ mp_c_pc = "c68"
    /\ mp_c_pc' = IF mp_value = 42 \/ Versions[mp_version] = "broken"
                  THEN "done" ELSE "abort"
    /\ UNCHANGED <<mp_data, mp_flag, mp_view, mp_version, mp_p_pc, mp_value,
                   mp_m_pc, othersMP>>

NextMP ==
    \/ MP_M_Reset \/ MP_M_Create \/ MP_M_Join
    \/ MP_P_StoreData \/ MP_P_StoreFlag
    \/ MP_C_LoadFlag \/ MP_C_LoadData \/ MP_C_Assert

SpecMP == Init /\ [][NextMP]_vars

\* ------------------------------------------------- balance under a mutex
othersR == <<qvars, pvars, cvars, hvars, m_pc, start_flag, vcvars, lvars, avars, bvars, bbvars, dvars, mpvars, nvars, tpvars, eqvars, svars>>

\* deposit adds 10 (line 16), withdraw subtracts 10 (line 27)
Amount(t) == IF t < R_NUM_THREADS THEN 10 ELSE 0 - 10

\* lines 41-48: the deposit threads are created, then the withdraw threads
R_M_Create ==
    /\ r_m_pc = "m41"
    /\ r_pc' = [r_pc EXCEPT ![r_m_i] = "r13"]
    /\ r_m_i' = IF r_m_i + 1 < 2 * R_NUM_THREADS THEN r_m_i + 1 ELSE 0
    /\ r_m_pc' = IF r_m_i + 1 < 2 * R_NUM_THREADS THEN "m41" ELSE "m51"
    /\ UNCHANGED <<balance, balance_mutex, r_i, r_temp, othersR>>

\* lines 51-57: every thread is joined in turn; main then reads balance
R_M_Join ==
    /\ r_m_pc = "m51"
    /\ r_pc[r_m_i] = "done"
    /\ r_m_i' = IF r_m_i + 1 < 2 * R_NUM_THREADS THEN r_m_i + 1 ELSE r_m_i
    /\ r_m_pc' = IF r_m_i + 1 < 2 * R_NUM_THREADS THEN "m51" ELSE "m57"
    /\ UNCHANGED <<balance, balance_mutex, r_pc, r_i, r_temp, othersR>>

\* faulty variant: the lock is taken although another thread holds it
R_Lock_NoWait(t) ==
    /\ r_pc[t] = "r13"
    /\ balance_mutex' = balance_mutex \cup {t}
    /\ r_pc' = [r_pc EXCEPT ![t] = "r14"]
    /\ UNCHANGED <<balance, r_i, r_temp, r_m_pc, r_m_i, othersR>>

\* lines 13 and 24: pthread_mutex_lock(&balance_mutex)
R_Lock(t) ==
    /\ r_pc[t] = "r13"
    /\ balance_mutex = {}
    /\ balance_mutex' = {t}
    /\ r_pc' = [r_pc EXCEPT ![t] = "r14"]
    /\ UNCHANGED <<balance, r_i, r_temp, r_m_pc, r_m_i, othersR>>

\* lines 14-15 and 25-26: temp = balance; usleep(1)
R_Read(t) ==
    /\ r_pc[t] = "r14"
    /\ r_temp' = [r_temp EXCEPT ![t] = balance]
    /\ r_pc' = [r_pc EXCEPT ![t] = "r16"]
    /\ UNCHANGED <<balance, balance_mutex, r_i, r_m_pc, r_m_i, othersR>>

\* lines 16-17 and 27-28, 12 and 23: balance = temp + 10 (or - 10);
\* pthread_mutex_unlock(&balance_mutex); the block of temp ends; i++ and the
\* loop test
R_Write(t) ==
    /\ r_pc[t] = "r16"
    /\ balance' = r_temp[t] + Amount(t)
    /\ balance_mutex' = balance_mutex \ {t}
    /\ r_i' = [r_i EXCEPT ![t] = r_i[t] + 1]
    /\ r_pc' = [r_pc EXCEPT ![t] = IF r_i[t] + 1 < TRANSACTIONS_PER_THREAD
                                  THEN "r13" ELSE "done"]
    /\ r_temp' = [r_temp EXCEPT ![t] = 0]
    /\ UNCHANGED <<r_m_pc, r_m_i, othersR>>

NextR ==
    \/ R_M_Create
    \/ R_M_Join
    \/ \E t \in Tellers : R_Lock(t)
    \/ \E t \in Tellers : R_Read(t)
    \/ \E t \in Tellers : R_Write(t)

SpecR == Init /\ [][NextR]_vars

\* ------------------------------------------------ a build with any QUEUE_SIZE
othersN == <<qvars, pvars, cvars, hvars, m_pc, start_flag, vcvars, lvars, avars, bvars, bbvars, dvars, mpvars, rvars, tpvars, eqvars, svars>>

\* a build: QUEUE_SIZE is any number from 2 on, a power of two or not
InitSizes ==
    /\ Init07 /\ start_flag = 0 /\ InitC /\ InitL /\ InitA /\ InitB /\ InitBB /\ InitD /\ InitMP /\ InitR /\ InitTP /\ InitEQ /\ InitS
    /\ \E n \in 2 .. MaxQueueSize : InitQueueN(n)

\* the caller enqueues one value after the other, until a call returns false
N_Call ==
    /\ n_pc \in {"idle", "ret"}
    /\ n_ret
    /\ n_value' = n_succ + 1
    /\ n_pc' = "e102"
    /\ UNCHANGED <<n_size, n_head, n_tail, n_buffer, n_h, n_next_head, n_t,
                   n_ret, n_succ, othersN>>

\* faulty variant: the advanced index wraps at QUEUE_SIZE
N_Load_Modulo ==
    /\ n_pc = "e102"
    /\ n_h' = n_head
    /\ n_next_head' = (n_head + 1) % n_size
    /\ n_t' = n_tail
    /\ n_pc' = "e106"
    /\ UNCHANGED <<n_size, n_head, n_tail, n_buffer, n_value, n_ret, n_succ, othersN>>

\* lines 102-104: head is loaded, next_head = (head + 1) & MASK with MASK
\* defined as QUEUE_SIZE - 1 (line 56), tail is loaded
N_Load ==
    /\ n_pc = "e102"
    /\ n_h' = n_head
    /\ n_next_head' = BitAnd(n_head + 1, n_size - 1)
    /\ n_t' = n_tail
    /\ n_pc' = "e106"
    /\ UNCHANGED <<n_size, n_head, n_tail, n_buffer, n_value, n_ret, n_succ, othersN>>

\* lines 106-113: if (next_head == tail) return false; otherwise the value is
\* written at head, next_head is stored into head, and true is returned
N_Store ==
    /\ n_pc = "e106"
    /\ IF n_next_head = n_t
       THEN /\ n_ret' = FALSE
            /\ UNCHANGED <<n_head, n_buffer, n_succ>>
       ELSE /\ n_buffer' = [n_buffer EXCEPT ![n_h] = <<n_value>>]
            /\ n_head' = n_next_head
            /\ n_ret' = TRUE
            /\ n_succ' = n_succ + 1
    /\ n_pc' = "ret"
    /\ n_value' = 0 /\ n_h' = 0 /\ n_next_head' = 0 /\ n_t' = 0
    /\ UNCHANGED <<n_size, n_tail, othersN>>

NextN == N_Call \/ N_Load \/ N_Store

SpecN == InitSizes /\ [][NextN]_vars

\* ------------------------------------------ two threads calling queue_enqueue
othersTP == <<qvars, pvars, cvars, hvars, m_pc, start_flag, vcvars, lvars, avars, bvars, bbvars, dvars, mpvars, rvars, nvars, eqvars, svars>>

\* lines 102-104: head is loaded, next_head computed, tail is loaded (no
\* thread stores tail while the calls run)
TP_Load(t) ==
    /\ tp_pc[t] = "e102"
    /\ tp_h' = [tp_h EXCEPT ![t] = tp_head]
    /\ tp_next_head' = [tp_next_head EXCEPT ![t] = BitAnd(tp_head + 1, MASK)]
    /\ tp_t' = [tp_t EXCEPT ![t] = tp_tail]
    /\ tp_pc' = [tp_pc EXCEPT ![t] = "e106"]
    /\ UNCHANGED <<tp_head, tp_tail, tp_buffer, tp_ret, tp_dequeued, othersTP>>

\* line 106: if (next_head == tail)
TP_Check(t) ==
    /\ tp_pc[t] = "e106"
    /\ tp_pc' = [tp_pc EXCEPT ![t] = IF tp_next_head[t] = tp_t[t] THEN "e107" ELSE "e111"]
    /\ UNCHANGED <<tp_head, tp_tail, tp_buffer, tp_h, tp_next_head, tp_t, tp_ret,
                   tp_dequeued, othersTP>>

\* faulty variant: the value is written at the advanced index
TP_Write_AtNext(t) ==
    /\ tp_pc[t] = "e111"
    /\ tp_buffer' = [tp_buffer EXCEPT ![tp_next_head[t]] = <<t>>]
    /\ tp_pc' = [tp_pc EXCEPT ![t] = "e112"]
    /\ UNCHANGED <<tp_head, tp_tail, tp_h, tp_next_head, tp_t, tp_ret,
                   tp_dequeued, othersTP>>

\* line 111: q->buffer[head] = value.  Two such writes of one slot race; the
\* slot keeps either value, the one written last here.
TP_Write(t) ==
    /\ tp_pc[t] = "e111"
    /\ tp_buffer' = [tp_buffer EXCEPT ![tp_h[t]] = <<t>>]
    /\ tp_pc' = [tp_pc EXCEPT ![t] = "e112"]
    /\ UNCHANGED <<tp_head, tp_tail, tp_h, tp_next_head, tp_t, tp_ret,
                   tp_dequeued, othersTP>>

\* line 112: next_head is stored into head
TP_StoreHead(t) ==
    /\ tp_pc[t] = "e112"
    /\ tp_head' = tp_next_head[t]
    /\ tp_pc' = [tp_pc EXCEPT ![t] = "e113"]
    /\ UNCHANGED <<tp_tail, tp_buffer, tp_h, tp_next_head, tp_t, tp_ret,
                   tp_dequeued, othersTP>>

\* lines 107 and 113: return false, return true; the locals cease to exist
TP_Return(t) ==
    /\ tp_pc[t] \in {"e107", "e113"}
    /\ tp_ret' = [tp_ret EXCEPT ![t] = (tp_pc[t] = "e113")]
    /\ tp_h' = [tp_h EXCEPT ![t] = 0]
    /\ tp_next_head' = [tp_next_head EXCEPT ![t] = 0]
    /\ tp_t' = [tp_t EXCEPT ![t] = 0]
    /\ tp_pc' = [tp_pc EXCEPT ![t] = "ret"]
    /\ UNCHANGED <<tp_head, tp_tail, tp_buffer, tp_dequeued, othersTP>>

\* lines 118-129: a queue_dequeue call of the one consumer that finds the
\* queue not empty, run as a whole
TP_Dequeue ==
    /\ tp_head # tp_tail
    /\ \E v \in (IF tp_buffer[tp_tail] = <<>> THEN AnyInt ELSE {tp_buffer[tp_tail][1]}) :
          tp_dequeued' = Append(tp_dequeued, v)
    /\ tp_tail' = BitAnd(tp_tail + 1, MASK)
    /\ UNCHANGED <<tp_head, tp_buffer, tp_pc, tp_h, tp_next_head, tp_t, tp_ret, othersTP>>

NextTP ==
    \/ \E t \in Enqueuers : TP_Load(t)
    \/ \E t \in Enqueuers : TP_Check(t)
    \/ \E t \in Enqueuers : TP_Write(t)
    \/ \E t \in Enqueuers : TP_StoreHead(t)
    \/ \E t \in Enqueuers : TP_Return(t)
    \/ TP_Dequeue

SpecTP == Init /\ [][NextTP]_vars

\* ------------------------------ exercise 07's queue beside exercise 08's
othersEQ == <<qvars, pvars, cvars, hvars, m_pc, start_flag, vcvars, lvars, avars, bvars, bbvars, dvars, mpvars, rvars, nvars, tpvars, svars>>

\* the cursors at the ends and in the middle of the ring, the queue empty,
\* nearly empty, nearly full and full
PairCursors == {0, 1, QUEUE_SIZE_08 \div 2, QUEUE_SIZE_08 - 2, QUEUE_SIZE_08 - 1}
PairResident == {0, 1, QUEUE_SIZE_08 - 2, QUEUE_SIZE_08 - 1}

InitPairs ==
    /\ Init07 /\ start_flag = 0 /\ InitC /\ InitL /\ InitA /\ InitB /\ InitBB /\ InitD /\ InitMP /\ InitR /\ InitN /\ InitTP /\ InitS
    /\ \E t \in PairCursors, n \in PairResident : InitPair(t, n)

\* faulty variant: the cursors are held in variables 8 bits wide
ToInt_Narrow(x) ==
    IF x <= 127 THEN x ELSE ((x + 128) % 256) - 128

\* conversion of a size_t to int (line 343): the value if int has it, else
\* the value less 2^INT_BITS
ToInt(x) ==
    IF x <= INT_MAX THEN x ELSE ((x - INT_MAX) - INT_MAX) - 2

\* conversion of an int to size_t (line 349): the value if it is not
\* negative, else the value plus SIZE_MAX + 1, shown in the low INT_BITS - 1
\* bits
ToSizeT(i) ==
    IF i >= 0 THEN i ELSE (INT_MAX + i) + 1

\* & of an int with MASK: the low bits of the two's complement
AndMask(i) == BitAnd(i % QUEUE_SIZE_08, MASK_08)

\* the same call is made on both queues
EQ_Call ==
    \/ /\ \A k \in Impls : eq_p[k].pc \in {"idle", "ret"}
       /\ eq_calls.enq < MaxPairCalls
       /\ eq_calls' = [eq_calls EXCEPT !.enq = @ + 1]
       /\ eq_p' = [k \in Impls |->
                     [eq_p[k] EXCEPT !.pc = "e1", !.value = 2000 + eq_calls.enq]]
       /\ UNCHANGED <<eq_head, eq_tail, eq_buffer, eq_c, othersEQ>>
    \/ /\ \A k \in Impls : eq_c[k].pc \in {"idle", "ret"}
       /\ eq_calls.deq < MaxPairCalls
       /\ eq_calls' = [eq_calls EXCEPT !.deq = @ + 1]
       /\ eq_c' = [k \in Impls |-> [eq_c[k] EXCEPT !.pc = "d1"]]
       /\ UNCHANGED <<eq_head, eq_tail, eq_buffer, eq_p, othersEQ>>

\* one statement of queue_enqueue (07, lines 101-114) and of spsc_enqueue
\* (08, lines 326-338), which have the same text
EnqueueStmt(k) ==
    LET p == eq_p[k] IN
    CASE p.pc = "e1" ->
           [p |-> [p EXCEPT !.head = eq_head[k], !.pc = "e2"],
            head |-> eq_head[k], buffer |-> eq_buffer[k]]
      [] p.pc = "e2" ->
           [p |-> [p EXCEPT !.next_head = BitAnd(p.head + 1, MASK_08), !.pc = "e3"],
            head |-> eq_head[k], buffer |-> eq_buffer[k]]
      [] p.pc = "e3" ->
           [p |-> [p EXCEPT !.tail = eq_tail[k], !.pc = "e4"],
            head |-> eq_head[k], buffer |-> eq_buffer[k]]
      [] p.pc = "e4" ->
           [p |-> IF p.next_head = p.tail
                  THEN [NoCallP EXCEPT !.pc = "ret", !.ret = FALSE]
                  ELSE [p EXCEPT !.pc = "e5"],
            head |-> eq_head[k], buffer |-> eq_buffer[k]]
      [] p.pc = "e5" ->
           [p |-> [p EXCEPT !.pc = "e6"],
            head |-> eq_head[k],
            buffer |-> [eq_buffer[k] EXCEPT ![p.head] = p.value]]
      [] p.pc = "e6" ->
           [p |-> [NoCallP EXCEPT !.pc = "ret", !.ret = TRUE],
            head |-> p.next_head, buffer |-> eq_buffer[k]]

EQ_Enqueue ==
    /\ \A k \in Impls : eq_p[k].pc \notin {"idle", "ret"}
    /\ eq_p' = [k \in Impls |-> EnqueueStmt(k).p]
    /\ eq_head' = [k \in Impls |-> EnqueueStmt(k).head]
    /\ eq_buffer' = [k \in Impls |-> EnqueueStmt(k).buffer]
    /\ UNCHANGED <<eq_tail, eq_c, eq_calls, othersEQ>>

\* what the locals of the dequeue hold of a cursor: the size_t itself in
\* queue_dequeue (07, lines 118-127), an int in spsc_dequeue (08, lines
\* 343-348)
Held(k, x) == IF k = "s08" THEN ToInt(x) ELSE x

\* q->buffer[tail]; a tail outside the array reads something else
ReadAt(k, i) ==
    IF i \in 0 .. QUEUE_SIZE_08 - 1 THEN eq_buffer[k][i] ELSE 0 - 1

\* one statement of queue_dequeue (07, lines 117-130) and of spsc_dequeue
\* (08, lines 340-351)
DequeueStmt(k) ==
    LET c == eq_c[k] IN
    CASE c.pc = "d1" ->
           [c |-> [c EXCEPT !.tail = Held(k, eq_tail[k]), !.pc = "d2"],
            tail |-> eq_tail[k]]
      [] c.pc = "d2" ->
           [c |-> [c EXCEPT !.head = Held(k, eq_head[k]), !.pc = "d3"],
            tail |-> eq_tail[k]]
      [] c.pc = "d3" ->
           [c |-> IF c.head = c.tail
                  THEN [NoCallC EXCEPT !.pc = "ret", !.ret = FALSE, !.value = c.value]
                  ELSE [c EXCEPT !.pc = "d4"],
            tail |-> eq_tail[k]]
      [] c.pc = "d4" ->
           [c |-> [c EXCEPT !.value = ReadAt(k, c.tail), !.pc = "d5"],
            tail |-> eq_tail[k]]
      [] c.pc = "d5" ->
           [c |-> [c EXCEPT !.next_tail = Held(k, AndMask(c.tail + 1)), !.pc = "d6"],
            tail |-> eq_tail[k]]
      [] c.pc = "d6" ->
           [c |-> [NoCallC EXCEPT !.pc = "ret", !.ret = TRUE, !.value = c.value],
            tail |-> IF k = "s08" THEN ToSizeT(c.next_tail) ELSE c.next_tail]

EQ_Dequeue ==
    /\ \A k \in Impls : eq_c[k].pc \notin {"idle", "ret"}
    /\ eq_c' = [k \in Impls |-> DequeueStmt(k).c]
    /\ eq_tail' = [k \in Impls |-> DequeueStmt(k).tail]
    /\ UNCHANGED <<eq_head, eq_buffer, eq_p, eq_calls, othersEQ>>

NextEQ == EQ_Call \/ EQ_Enqueue \/ EQ_Dequeue

SpecEQ == InitPairs /\ [][NextEQ]_vars

\* ------------------------------------------------------------ spinlocks
othersS == <<qvars, pvars, cvars, hvars, m_pc, start_flag, vcvars, lvars, avars, bvars, bbvars, dvars, mpvars, rvars, nvars, tpvars, eqvars>>

\* a test of main (lines 296-303; the tests of the four hand-written locks,
\* lines 218-290, have this shape and are commented out in the source): the
\* lock is initialised free, shared_counter = 0, the workers are created
S_M_Test ==
    /\ s_m_pc = "test"
    /\ s_locked' = FALSE /\ s_counter' = 0
    /\ s_pc' = [t \in SpinWorkers |-> "for"]
    /\ s_i' = [t \in SpinWorkers |-> 0]
    /\ s_m_pc' = "join"
    /\ UNCHANGED <<s_kind, s_tmp, s_backoff, othersS>>

\* lines 304-306: the workers are joined; main goes on to its next test
S_M_Join ==
    /\ s_m_pc = "join"
    /\ \A t \in SpinWorkers : s_pc[t] = "done"
    /\ IF s_kind < Len(Kinds)
       THEN s_kind' = s_kind + 1 /\ s_m_pc' = "test"
       ELSE s_kind' = s_kind /\ s_m_pc' = "end"
    /\ UNCHANGED <<s_locked, s_counter, s_pc, s_i, s_tmp, s_backoff, othersS>>

\* the worker's loop test (lines 163, 173, 193, 203) and the entry of the
\* lock function (backoff = BACKOFF_MIN, line 128)
S_W_For(t) ==
    /\ s_pc[t] = "for"
    /\ IF s_i[t] < ITERATIONS
       THEN /\ s_pc' = [s_pc EXCEPT ![t] = IF Kinds[s_kind] = "tas" THEN "tas" ELSE "load"]
            /\ s_backoff' = [s_backoff EXCEPT ![t] =
                               IF Kinds[s_kind] = "backoff" THEN BACKOFF_MIN ELSE 0]
       ELSE /\ s_pc' = [s_pc EXCEPT ![t] = "done"]
            /\ s_backoff' = s_backoff
    /\ UNCHANGED <<s_kind, s_locked, s_counter, s_i, s_tmp, s_m_pc, othersS>>

\* the end of a failed attempt (lines 82, 105, 139-145): cpu_relax, in
\* backoff_lock backoff times, and backoff doubled up to BACKOFF_MAX
Relaxed(t) ==
    [s_backoff EXCEPT ![t] =
        IF Kinds[s_kind] # "backoff" THEN 0
        ELSE IF s_backoff[t] * 2 > BACKOFF_MAX THEN BACKOFF_MAX
        ELSE s_backoff[t] * 2]

\* faulty variant: the exchange is taken to have succeeded whatever the flag
\* held
S_Lock_Blind(t) ==
    /\ \/ /\ s_pc[t] = "tas"
          /\ s_locked' = TRUE
          /\ s_pc' = [s_pc EXCEPT ![t] = "read"]
          /\ UNCHANGED s_backoff
       \/ /\ s_pc[t] = "load"
          /\ s_pc' = [s_pc EXCEPT ![t] = IF s_locked THEN "load" ELSE "cas"]
          /\ s_backoff' = IF s_locked THEN Relaxed(t) ELSE s_backoff
          /\ UNCHANGED s_locked
       \/ /\ s_pc[t] = "cas"
          /\ s_locked' = TRUE
          /\ s_pc' = [s_pc EXCEPT ![t] = "read"]
          /\ s_backoff' = [s_backoff EXCEPT ![t] = 0]
    /\ UNCHANGED <<s_kind, s_counter, s_i, s_tmp, s_m_pc, othersS>>

\* one step of the lock function.
\* tas_lock (lines 45-49): test_and_set sets the flag and returns what it
\* held; the loop goes on while that was true.
\* ttas_lock, ttas_pause_lock, backoff_lock (lines 63-85, 93-107, 127-147):
\* the relaxed load; if it found false, the weak compare-exchange of false
\* to true, which fails when the flag is true and may fail when it is false;
\* a failed attempt ends with Relaxed, which touches nothing shared, and the
\* loop goes back to the load; backoff ceases to exist at the return.
S_Lock(t) ==
    /\ \/ /\ s_pc[t] = "tas"
          /\ s_locked' = TRUE
          /\ s_pc' = [s_pc EXCEPT ![t] = IF s_locked THEN "tas" ELSE "read"]
          /\ UNCHANGED s_backoff
       \/ /\ s_pc[t] = "load"
          /\ s_pc' = [s_pc EXCEPT ![t] = IF s_locked THEN "load" ELSE "cas"]
          /\ s_backoff' = IF s_locked THEN Relaxed(t) ELSE s_backoff
          /\ UNCHANGED s_locked
       \/ /\ s_pc[t] = "cas"
          /\ \/ /\ ~s_locked
                /\ s_locked' = TRUE
                /\ s_pc' = [s_pc EXCEPT ![t] = "read"]
                /\ s_backoff' = [s_backoff EXCEPT ![t] = 0]
             \/ /\ s_locked' = s_locked
                /\ s_pc' = [s_pc EXCEPT ![t] = "load"]
                /\ s_backoff' = Relaxed(t)
    /\ UNCHANGED <<s_kind, s_counter, s_i, s_tmp, s_m_pc, othersS>>

\* shared_counter++ (lines 165, 175, 195, 205): a plain read, then a plain
\* write
S_W_Incr(t) ==
    /\ \/ /\ s_pc[t] = "read"
          /\ s_tmp' = [s_tmp EXCEPT ![t] = s_counter]
          /\ s_pc' = [s_pc EXCEPT ![t] = "write"]
          /\ UNCHANGED s_counter
       \/ /\ s_pc[t] = "write"
          /\ s_counter' = s_tmp[t] + 1
          /\ s_tmp' = [s_tmp EXCEPT ![t] = 0]
          /\ s_pc' = [s_pc EXCEPT ![t] = "unlock"]
    /\ UNCHANGED <<s_kind, s_locked, s_i, s_backoff, s_m_pc, othersS>>

\* faulty variant: the unlock function leaves the flag set
S_Unlock_Keep(t) ==
    /\ s_pc[t] = "unlock"
    /\ s_locked' = s_locked
    /\ s_i' = [s_i EXCEPT ![t] = s_i[t] + 1]
    /\ s_pc' = [s_pc EXCEPT ![t] = "for"]
    /\ UNCHANGED <<s_kind, s_counter, s_tmp, s_backoff, s_m_pc, othersS>>

\* the unlock function (lines 51-55, 115-117, 149-155): the flag is cleared
\* with a release store; i++
S_Unlock(t) ==
    /\ s_pc[t] = "unlock"
    /\ s_locked' = FALSE
    /\ s_i' = [s_i EXCEPT ![t] = s_i[t] + 1]
    /\ s_pc' = [s_pc EXCEPT ![t] = "for"]
    /\ UNCHANGED <<s_kind, s_counter, s_tmp, s_backoff, s_m_pc, othersS>>

spin_worker(t) == S_W_For(t) \/ S_Lock(t) \/ S_W_Incr(t) \/ S_Unlock(t)

NextS ==
    \/ S_M_Test
    \/ S_M_Join
    \/ \E t \in SpinWorkers : S_W_For(t)
    \/ \E t \in SpinWorkers : S_Lock(t)
    \/ \E t \in SpinWorkers : S_W_Incr(t)
    \/ \E t \in SpinWorkers : S_Unlock(t)

SpecS == Init /\ [][NextS]_vars

\* the step of the lock function that takes the lock: the compare-exchange
\* (in tas_lock the test_and_set) that finds the flag clear and sets it
S_Acquire(t) == S_Lock(t) /\ ~s_locked /\ s_locked'

\* every worker and main keep being scheduled, and the exchanges that find
\* the lock free again and again do not all fail
SpecSFair ==
    /\ SpecS
    /\ \A t \in SpinWorkers : WF_vars(spin_worker(t))
    /\ SF_vars(\E t \in SpinWorkers : S_Acquire(t))
    /\ WF_vars(S_M_Test \/ S_M_Join)

\* a step of worker t that its own code takes: any step but a return of
\* pthread_cond_wait that no broadcast caused
B_Run(t) ==
    \/ B_W_For(t) \/ B_W_Passed(t) \/ B_Lock(t) \/ B_Arrive(t) \/ B_Last(t)
    \/ B_While(t) \/ B_CondWait(t) \/ B_Unlock(t)
    \/ (B_Wake(t) /\ t \notin b_waiting)

\* worker t gets the mutex, in pthread_mutex_lock or on its way out of
\* pthread_cond_wait after the broadcast
B_Acquire(t) == B_Lock(t) \/ (B_Wake(t) /\ t \notin b_waiting)

\* every thread keeps being scheduled, and the threads waiting for the mutex
\* are not passed over for ever by returns of pthread_cond_wait that no
\* broadcast caused
SpecBFair ==
    /\ SpecB
    /\ \A t \in BThreads : WF_vars(B_Run(t))
    /\ SF_vars(\E t \in BThreads : B_Acquire(t))
    /\ WF_vars(barrier_init \/ B_M_Create \/ B_M_Join)

\* --------------------------------------------- one thread calling both ends
\* a single-threaded test: each call runs to its return before the next starts
S_CallEnqueue ==
    /\ p_pc \in {"idle", "ret"} /\ c_pc \in {"idle", "ret"}
    /\ p_calls < MaxEnqCalls
    /\ \E v \in CallValues : EnqueueEntry(v) /\ p_i' = v
    /\ p_calls' = p_calls + 1
    /\ c_pc' = "idle"
    /\ UNCHANGED <<qvars, p_head, p_next_head, p_tail, p_ret, p_backoff,
                   c_tail, c_head, c_next_tail, c_value, c_ret, c_received,
                   c_error, c_backoff, enqueued, dequeued, c_calls, p_writes>>
    /\ UNCHANGED <<m_pc, others07>>

S_CallDequeue ==
    /\ p_pc \in {"idle", "ret"} /\ c_pc \in {"idle", "ret"}
    /\ c_calls < MaxDeqCalls
    /\ DequeueEntry
    /\ c_calls' = c_calls + 1
    /\ p_pc' = "idle"
    /\ UNCHANGED <<qvars, p_value, p_head, p_next_head, p_tail, p_ret, p_i,
                   p_backoff, c_tail, c_head, c_next_tail, c_value, c_ret,
                   c_received, c_error, c_backoff, enqueued, dequeued, p_calls,
                   p_writes>>
    /\ UNCHANGED <<m_pc, others07>>

NextSeq ==
    \/ S_CallEnqueue \/ queue_enqueue
    \/ S_CallDequeue \/ queue_dequeue
    \/ Drain

SpecSeq == Init /\ [][NextSeq]_vars

Next ==
    \/ P_Call \/ queue_enqueue
    \/ C_Call \/ queue_dequeue
    \/ Drain

Spec == Init /\ [][Next]_vars

\* ====================================================================
\* Properties
\* ====================================================================
IsPrefix(s, t) ==
    /\ Len(s) <= Len(t)
    /\ \A i \in 1 .. Len(s) : s[i] = t[i]

Range(s) == {s[i] : i \in 1 .. Len(s)}

\* values whose head store is published and whose tail store is not
Resident == Len(enqueued) - Len(dequeued)

\* C1 (FIFO): at every moment the values taken out by successful dequeues are
\* a prefix of the values put in by successful enqueues, in the same order:
\* nothing is reordered, duplicated or lost.
\* Specification: Spec.
C1_FIFO == IsPrefix(dequeued, enqueued)

\* more values than slots have gone through (the last one read from a slot
\* used for the second time), one of them passed twice in a row
C1_Witness ==
    /\ Len(dequeued) > QUEUE_SIZE
    /\ dequeued[1] # dequeued[2]
    /\ dequeued[2] = dequeued[3]
    /\ c_pc = "d129"

\* C2 (no loss under concurrency): with the producer thread sending
\* 0 .. NUM_MESSAGES-1 (retrying on full) and the consumer thread receiving
\* NUM_MESSAGES values, the k-th value received is k-1 and the exit(1) branch
\* is never taken.
\* Specification: SpecTest.
C2_NoLoss ==
    /\ ~c_error
    /\ c_pc # "exit"
    /\ \A k \in 1 .. Len(dequeued) : dequeued[k] = k - 1
    /\ c_pc = "h156" => c_value[1] = c_received
    /\ c_pc = "h167" => c_received = NUM_MESSAGES /\ Len(dequeued) = NUM_MESSAGES

\* both threads have returned, all messages received
C2_Witness ==
    /\ c_pc = "h167" /\ p_pc = "h144"
    /\ c_received = NUM_MESSAGES
    /\ NUM_MESSAGES > QUEUE_SIZE

\* C3 (capacity bound): at most QUEUE_SIZE-1 values are resident in every
\* reachable state, and as long as no dequeue has published tail the k-th
\* call of queue_enqueue returns true exactly when k <= QUEUE_SIZE-1.
\* Specification: Spec.
C3_CapacityBound ==
    /\ Resident \in 0 .. (QUEUE_SIZE - 1)
    /\ (p_pc = "ret" /\ dequeued = <<>>) => (p_ret <=> p_calls <= QUEUE_SIZE - 1)

\* the QUEUE_SIZE-th enqueue in a row has just returned false
C3_Witness ==
    /\ p_pc = "ret" /\ dequeued = <<>>
    /\ p_calls = QUEUE_SIZE /\ ~p_ret
    /\ Resident = QUEUE_SIZE - 1

\* C4 (empty/full boundary with wrap-around): with calls made one after the
\* other, a dequeue on a queue nothing was put into returns empty; with no
\* dequeue the k-th enqueue succeeds exactly for k <= QUEUE_SIZE-1, so the next
\* one after QUEUE_SIZE-1 successes returns full; after one successful dequeue
\* (which returns the first value put in) the next enqueue succeeds, writes
\* the last slot and wraps head to 0; the successful dequeues return the
\* values in the order they were put in, all QUEUE_SIZE of them once the
\* queue is drained.
\* Specification: SpecSeq.
C4_Boundary ==
    /\ (c_pc = "ret" /\ enqueued = <<>>) => ~c_ret
    /\ (p_pc = "ret" /\ dequeued = <<>>) => (p_ret <=> p_calls <= QUEUE_SIZE - 1)
    /\ (p_pc = "ret" /\ Len(dequeued) = 1
          /\ Len(enqueued) - (IF p_ret THEN 1 ELSE 0) = QUEUE_SIZE - 1)
       => /\ p_ret
          /\ q_head = 0
          /\ buffer[QUEUE_SIZE - 1] = <<enqueued[QUEUE_SIZE]>>
          /\ dequeued[1] = enqueued[1]
    /\ (c_pc = "ret" /\ c_ret)
       => /\ Len(dequeued) \in 1 .. Len(enqueued)
          /\ c_value = <<enqueued[Len(dequeued)]>>
    /\ Len(dequeued) = QUEUE_SIZE
       => /\ Len(enqueued) >= QUEUE_SIZE
          /\ dequeued = SubSeq(enqueued, 1, QUEUE_SIZE)

\* the scenario has run to its end: one empty dequeue, one full enqueue,
\* QUEUE_SIZE values in and out, both cursors wrapped to 0
C4_Witness ==
    /\ c_pc = "ret" /\ c_ret
    /\ Len(enqueued) = QUEUE_SIZE /\ Len(dequeued) = QUEUE_SIZE
    /\ p_calls = QUEUE_SIZE + 1 /\ c_calls = QUEUE_SIZE + 1
    /\ q_head = 0 /\ q_tail = 0

\* C5 (full is a return value and leaves the queue unchanged): a call that
\* has observed next_head = tail has written no slot and no cursor (head is
\* still the value it loaded, it has no write pending, every slot write ever
\* made belongs to a call that went on to publish head); its last step
\* returns false and changes neither buffer, head nor tail; and every value a
\* dequeue returns, and every value in the buffer, was put there by a
\* successful enqueue (a rejected value shows up only if enqueued again).
\* Specification: Spec.
C5_FullState ==
    /\ p_writes = Len(enqueued) + (IF p_pc = "e112" THEN 1 ELSE 0)
    /\ p_pc = "e107" => /\ p_next_head = p_tail
                        /\ q_head = p_head
                        /\ wbuf = <<>>
    /\ \A i \in 1 .. Len(dequeued) : dequeued[i] \in Range(enqueued)
    /\ \A sl \in Slots : buffer[sl] # <<>> =>
          buffer[sl][1] \in Range(enqueued) \cup (IF p_pc = "e112" THEN {p_value} ELSE {})

C5_FullStep ==
    p_pc = "e107" =>
        \/ p_pc' = "e107"
        \/ /\ p_pc' = "ret" /\ ~p_ret'
           /\ UNCHANGED <<buffer, wbuf, q_head, q_tail, enqueued, p_writes>>

C5_FullUnchanged == []C5_FullState /\ [][C5_FullStep]_vars

\* an enqueue is about to return false on a full queue
C5_Witness ==
    /\ p_pc = "e107"
    /\ Resident = QUEUE_SIZE - 1

\* the value *value last received from a successful dequeue, if any
LastDequeued == IF dequeued = <<>> THEN <<>> ELSE <<dequeued[Len(dequeued)]>>

\* C6 (empty is a return value and leaves the queue unchanged): a call that
\* has observed head = tail has not written tail (it still is the value
\* loaded) and has not touched *value (it holds what the last successful
\* dequeue put there); its last step returns false and changes neither
\* head, tail, a buffer slot nor *value.
\* Specification: Spec.
C6_EmptyState ==
    /\ c_pc = "d122" => /\ c_head = c_tail
                        /\ q_tail = c_tail
    /\ c_pc \in {"d118", "d120", "d121", "d122"} => c_value = LastDequeued
    /\ (c_pc = "ret" /\ ~c_ret) => c_value = LastDequeued

C6_EmptyStep ==
    c_pc = "d122" =>
        \/ c_pc' = "d122"
        \/ /\ c_pc' = "ret" /\ ~c_ret'
           /\ UNCHANGED <<buffer, wbuf, q_head, q_tail, c_value, dequeued>>

C6_EmptyUnchanged == []C6_EmptyState /\ [][C6_EmptyStep]_vars

\* a dequeue has returned false after an earlier one had delivered a value,
\* while a value is on its way into the queue
C6_Witness ==
    /\ c_pc = "ret" /\ ~c_ret
    /\ dequeued # <<>>
    /\ p_pc = "e112"

\* (head - tail) mod QUEUE_SIZE
Occupancy == (q_head - q_tail + QUEUE_SIZE) % QUEUE_SIZE

\* C7 (occupancy): in every reachable state (head - tail) mod QUEUE_SIZE lies
\* in 0 .. QUEUE_SIZE-1 and is the number of values whose enqueue has
\* published head and whose dequeue has not yet published tail.
\* Specification: Spec.
C7_Occupancy ==
    /\ q_head \in Slots /\ q_tail \in Slots
    /\ Occupancy \in 0 .. (QUEUE_SIZE - 1)
    /\ Occupancy = Resident

\* a full queue whose head has wrapped around behind tail
C7_Witness ==
    /\ q_head < q_tail
    /\ Occupancy = QUEUE_SIZE - 1

\* slot of the j-th resident value (j = 0 is the one at tail)
LiveSlot(j) == BitAnd(q_tail + j, MASK)

\* C8 (publication order): the payload is in memory before the advanced head
\* is.  In every reachable state each slot of the live range [tail, head)
\* holds, in memory, the value of the enqueue that published it; a consumer
\* that has seen head # tail reads from buffer[tail] the value enqueued for
\* that slot, never a slot whose write has not completed.
\* Specification: Spec.
C8_Publication ==
    /\ \A j \in 0 .. (Resident - 1) :
          buffer[LiveSlot(j)] = <<enqueued[Len(dequeued) + 1 + j]>>
    /\ c_pc = "d126" =>
          /\ Len(dequeued) < Len(enqueued)
          /\ buffer[c_tail] = <<enqueued[Len(dequeued) + 1]>>
    /\ c_pc \in {"d127", "d128"} =>
          /\ Len(dequeued) < Len(enqueued)
          /\ c_value = <<enqueued[Len(dequeued) + 1]>>

\* the consumer is about to read a slot while a later payload write of the
\* producer has not reached memory yet
C8_Witness ==
    /\ c_pc = "d126"
    /\ p_pc = "e112" /\ wbuf # <<>>
    /\ buffer[p_head] = <<>>

\* slots for which a write of the producer is under way: the statement at
\* line 111 is next, or its write has not reached memory
WriteTargets ==
    (IF p_pc = "e111" THEN {p_head} ELSE {}) \cup {wbuf[i][1] : i \in 1 .. Len(wbuf)}

\* slots holding a published value not yet released by a tail store
LiveSlots == {LiveSlot(j) : j \in 0 .. (Resident - 1)}

\* C9 (slot reclamation order): the producer never writes a slot that holds
\* a live value, and never writes the slot the consumer is working on
\* between its load of head (having seen the queue non-empty) and its store
\* of tail; the producer's slot write and the consumer's slot read never
\* target the same index at the same time.
\* Specification: Spec.
C9_Reclamation ==
    /\ WriteTargets \cap LiveSlots = {}
    /\ (c_pc \in {"d126", "d127", "d128"} \/ (c_pc = "d121" /\ c_head # c_tail))
          => c_tail \notin WriteTargets

\* the producer writes a slot for the second time while the consumer is
\* reading another one
C9_Witness ==
    /\ p_pc = "e111" /\ c_pc = "d126"
    /\ Len(enqueued) >= QUEUE_SIZE
    /\ buffer[p_head] # <<>>

InEnqueue == {"e102", "e103", "e104", "e106", "e107", "e111", "e112", "e113"}
InDequeue == {"d118", "d120", "d121", "d122", "d126", "d127", "d128", "d129"}

\* statements of a call still ahead of the position pc, at most
StepsLeft(pc) ==
    CASE pc \in {"e102", "d118"} -> 7
      [] pc \in {"e103", "d120"} -> 6
      [] pc \in {"e104", "d121"} -> 5
      [] pc \in {"e106", "d126"} -> 4
      [] pc \in {"e111", "d127"} -> 3
      [] pc \in {"e112", "d128"} -> 2
      [] pc \in {"e107", "e113", "d122", "d129"} -> 1
      [] OTHER -> 0

\* C10 (non-blocking): wherever a call of queue_enqueue or queue_dequeue
\* stands, and wherever the other thread stands, its next statement can be
\* taken; every statement taken brings the call closer to its return, which
\* it reaches after at most 7 steps of its own, with the result true or false.
\* Specification: Spec.
C10_Enabled ==
    /\ p_pc \in InEnqueue => ENABLED queue_enqueue
    /\ c_pc \in InDequeue => ENABLED queue_dequeue
    /\ p_ret \in BOOLEAN /\ c_ret \in BOOLEAN

C10_Progress ==
    /\ (p_pc \in InEnqueue /\ p_pc' # p_pc) =>
          /\ p_pc' \in InEnqueue \cup {"ret"}
          /\ StepsLeft(p_pc') < StepsLeft(p_pc)
    /\ (c_pc \in InDequeue /\ c_pc' # c_pc) =>
          /\ c_pc' \in InDequeue \cup {"ret"}
          /\ StepsLeft(c_pc') < StepsLeft(c_pc)

C10_NonBlocking == []C10_Enabled /\ [][C10_Progress]_vars

\* the consumer has seen the queue empty and the producer has seen it full,
\* each in the middle of its call
C10_Witness ==
    /\ c_pc = "d121" /\ c_head = c_tail
    /\ p_pc = "e106" /\ p_next_head = p_tail

\* C11 (cursor ownership): head changes only in the producer's store at line
\* 112 and tail only in the consumer's store at line 128; no step of
\* queue_enqueue changes tail, and no step of queue_dequeue, on its success
\* or its failure path, changes head or the buffer (in memory or pending).
\* Specification: Spec.
C11_OwnerStep ==
    /\ q_head' # q_head => (p_pc = "e112" /\ p_pc' = "e113")
    /\ q_tail' # q_tail => (c_pc = "d128" /\ c_pc' = "d129")
    /\ (p_pc \in InEnqueue /\ p_pc' # p_pc) => q_tail' = q_tail
    /\ (c_pc \in InDequeue /\ c_pc' # c_pc) =>
          UNCHANGED <<q_head, buffer, wbuf>>

C11_Ownership == [][C11_OwnerStep]_vars

\* both cursors have just been stored, each by its owner, after a failed
\* call on either side
C11_Witness ==
    /\ p_pc = "e113" /\ c_pc = "d129"
    /\ p_calls > Len(enqueued)
    /\ c_calls > Len(dequeued)

\* C12 as stated (the stored head is a counter that wraps only at the word
\* size): every change of the stored head, and of the stored tail, adds one.
\* No cursor of the model comes near 2^64, so adding one modulo the word
\* size is adding one.
C12_AsStated ==
    [][ /\ q_head' # q_head => q_head' = q_head + 1
        /\ q_tail' # q_tail => q_tail' = q_tail + 1 ]_vars

\* C12 (amended): the stored cursors are slot indices.  Every change of the
\* stored head replaces h by (h + 1) & MASK, so head wraps at QUEUE_SIZE and
\* always lies in 0 .. QUEUE_SIZE-1; the mask is applied when the cursor is
\* advanced, and the buffer is indexed with the loaded cursor as it is
\* (the producer writes buffer[q->head], the consumer reads buffer[q->tail]).
\* Likewise for tail.
\* Specification: Spec.
C12_CursorState ==
    /\ q_head \in Slots /\ q_tail \in Slots
    /\ p_pc \in {"e111", "e112"} => p_head = q_head
    /\ p_pc = "e112" => wbuf = <<>> \/ wbuf[Len(wbuf)][1] = q_head
    /\ c_pc \in {"d126", "d127", "d128"} => c_tail = q_tail

C12_CursorStep ==
    /\ q_head' # q_head => q_head' = BitAnd(q_head + 1, MASK)
    /\ q_tail' # q_tail => q_tail' = BitAnd(q_tail + 1, MASK)

C12_MaskedCursor == []C12_CursorState /\ [][C12_CursorStep]_vars

\* head is about to wrap from the last slot index to 0
C12_Witness ==
    /\ p_pc = "e112"
    /\ q_head = QUEUE_SIZE - 1 /\ p_next_head = 0

\* C13 (cursors never move backward): the only change ever made to head is
\* an advance by one position modulo QUEUE_SIZE, made by an enqueue that
\* then returns true; the only change ever made to tail is such an advance
\* made by a dequeue that then returns true; a call on its way to returning
\* false changes neither; and tail never passes head (no more values have
\* been taken out than put in, and never more than QUEUE_SIZE-1 are between
\* the two cursors).
\* Specification: Spec.
C13_MonotoneStep ==
    /\ q_head' # q_head =>
          /\ q_head' = (q_head + 1) % QUEUE_SIZE
          /\ Len(enqueued') = Len(enqueued) + 1
    /\ q_tail' # q_tail =>
          /\ q_tail' = (q_tail + 1) % QUEUE_SIZE
          /\ Len(dequeued') = Len(dequeued) + 1
    /\ (p_pc = "e113" /\ p_pc' # p_pc) => p_ret'
    /\ (c_pc = "d129" /\ c_pc' # c_pc) => c_ret'
    /\ (p_pc = "e107" /\ p_pc' # p_pc) =>
          /\ ~p_ret'
          /\ p_head = q_head
          /\ UNCHANGED <<q_head, q_tail>>
    /\ (c_pc = "d122" /\ c_pc' # c_pc) =>
          /\ ~c_ret'
          /\ c_tail = q_tail
          /\ UNCHANGED <<q_head, q_tail>>

C13_Order ==
    /\ Len(dequeued) <= Len(enqueued)
    /\ q_tail = Len(dequeued) % QUEUE_SIZE
    /\ q_head = Len(enqueued) % QUEUE_SIZE

C13_Monotone == []C13_Order /\ [][C13_MonotoneStep]_vars

\* tail has caught up with head after both have wrapped
C13_Witness ==
    /\ Len(enqueued) > QUEUE_SIZE
    /\ Len(dequeued) = Len(enqueued)
    /\ q_head = q_tail

\* C14 (initialisation): once queue_init has run, and until a thread stores
\* a cursor, head and tail are both 0; a thread exists only after queue_init
\* has completed, so every queue operation of either worker comes after it;
\* on the queue as initialised a dequeue returns false (as long as nothing
\* has been enqueued) and the enqueue of the first message succeeds.
\* Specification: SpecMain.
InitDone == m_pc \in {"m191", "m192", "m194", "m195", "m196"}

C14_Initialised ==
    /\ (InitDone /\ enqueued = <<>>) => (q_head = 0 /\ q_tail = 0)
    /\ (p_pc # "nothread" \/ c_pc # "nothread") => InitDone
    /\ (p_pc \in InEnqueue \/ c_pc \in InDequeue) =>
          (q_head \in Slots /\ q_tail \in Slots)
    /\ (c_pc = "ret" /\ enqueued = <<>>) => ~c_ret
    /\ (p_pc = "ret" /\ p_i = 0) => p_ret

\* memory held other cursors than 0, queue_init has run, the consumer's
\* first call has found the queue empty and the producer's first call is at
\* its head store
C14_Witness ==
    /\ InitDone
    /\ c_pc = "ret" /\ ~c_ret /\ enqueued = <<>>
    /\ p_pc = "e112" /\ p_i = 0

\* C16 (capstone Variant C): once main has joined both threads the consumer
\* has dequeued exactly NUM_MESSAGES values and the sum it returned is
\* NUM_MESSAGES * (NUM_MESSAGES - 1) / 2; at every moment the consumer's sum
\* is the sum of the first i values 0, 1, .., i-1 the producer enqueued, and
\* the consumer is never ahead of the producer.
\* Specification: SpecC.
SumBelow(n) == (n * (n - 1)) \div 2

C16_VariantCSum ==
    /\ vc_c_pc \in {"c344", "c345", "c348", "c350", "c393"} =>
          (vc_sum = SumBelow(vc_c_i) /\ vc_c_i <= vc_p_i)
    /\ vc_c_pc = "c393" => vc_c_i = NUM_MESSAGES
    /\ vc_p_pc = "p370" => vc_p_i = NUM_MESSAGES
    /\ vc_m_pc \in {"m425", "m428"} =>
          /\ vc_c_pc = "c393" /\ vc_p_pc = "p370"
          /\ vc_c_i = NUM_MESSAGES
          /\ vc_observed = SumBelow(NUM_MESSAGES)

\* run_variant_c has joined both threads, with more messages than slots
C16_Witness ==
    /\ vc_m_pc = "m428"
    /\ vc_observed = SumBelow(NUM_MESSAGES)
    /\ NUM_MESSAGES > QUEUE_SIZE
    /\ start_flag = 0

\* C15 (acquire/release is necessary): with the head store relaxed, the
\* consumer's read at line 126 yields a value different from the one
\* enqueued for the slot only in a step where the producer's write of that
\* value to that slot is still pending although head has already been
\* advanced past it; such a read happens (C15_Witness), and its dequeue
\* returns true with the wrong value.
\* Specification: SpecRelaxed.
C15_ReadStep ==
    (c_pc = "d126" /\ c_pc' = "d127"
        /\ c_value'[1] # enqueued[Len(dequeued) + 1]) =>
    \E k \in 1 .. Len(wbuf) :
        wbuf[k] = <<c_tail, enqueued[Len(dequeued) + 1]>>

C15_RelaxedCorrupts ==
    [](c_pc = "d126" => Len(dequeued) < Len(enqueued)) /\ [][C15_ReadStep]_vars

\* a successful dequeue has returned a value that is not the one enqueued
\* for its slot, and the consumer thread has noticed
C15_Witness ==
    /\ c_pc = "exit" /\ c_error /\ c_ret
    /\ dequeued # <<>>
    /\ dequeued[Len(dequeued)] # enqueued[Len(dequeued)]
    /\ c_value[1] = dequeued[Len(dequeued)]

\* C17 (cache-line isolation): in the default build (ALIGN_HEAD = ALIGN_TAIL
\* = 64), whatever the length of buffer, the offsets of head and tail are
\* multiples of 64 and the offset of tail is at least 64 above that of
\* head, so that head, tail and the buffer lie in different 64-byte lines;
\* with QUEUE_SIZE = 1024 the offsets are 4096 and 4160.
\* Specification: SpecLayout.
DefaultBuild == l_ah = ALIGN_HEAD /\ l_at = ALIGN_TAIL

C17_CacheLines ==
    (DefaultBuild /\ l_pc \in {"size", "done"}) =>
        /\ l_off_head % CACHE_LINE_SIZE = 0
        /\ l_off_tail % CACHE_LINE_SIZE = 0
        /\ l_off_tail - l_off_head >= CACHE_LINE_SIZE
        /\ l_off_head \div CACHE_LINE_SIZE # l_off_tail \div CACHE_LINE_SIZE
        /\ l_off_head >= SizeofInt * l_n
        /\ l_n = BUILD_QUEUE_SIZE =>
              (l_off_head = SizeofInt * BUILD_QUEUE_SIZE
               /\ l_off_tail = l_off_head + CACHE_LINE_SIZE)

\* the default build of the source has been laid out
C17_Witness ==
    /\ DefaultBuild /\ l_pc = "done"
    /\ l_n = BUILD_QUEUE_SIZE
    /\ l_off_tail = l_off_head + CACHE_LINE_SIZE
    /\ l_size = l_off_tail + CACHE_LINE_SIZE

\* C18 (capstone Variant A): when run_variant_a has joined all NUM_THREADS
\* workers shared_counter = NUM_THREADS * INCREMENTS, and likewise when
\* run_variant_a_ttas has joined its workers; at most one worker is ever
\* between the load and the store of shared_counter++, and the counter is
\* the number of increments completed so far.
\* Specification: SpecA.
InIncrement == {t \in Workers : a_pc[t] \in {"w132r", "w132w", "w133", "t88r", "t88w", "t90"}}

RECURSIVE SumTo(_, _)
SumTo(f, n) == IF n = 0 THEN 0 ELSE f[n] + SumTo(f, n - 1)

Completed ==
    SumTo([t \in Workers |->
             IF a_pc[t] \in {"nothread", "w124", "t63", "t66"} THEN 0
             ELSE a_i[t] + (IF a_pc[t] = "w133" THEN 1 ELSE 0)], NUM_THREADS)

C18_VariantACounter ==
    /\ Cardinality(InIncrement) <= 1
    /\ a_m_pc \in {"a162", "a166", "t111", "t114"} => shared_counter = Completed
    /\ a_m_pc \in {"a166", "t114"} =>
          /\ \A t \in Workers : a_pc[t] = "done"
          /\ shared_counter = NUM_THREADS * INCREMENTS

\* both variants have run to their joins: the mutex variant has been
\* checked and reset, and the TTAS variant has counted again
C18_Witness ==
    /\ a_m_pc = "t114"
    /\ shared_counter = NUM_THREADS * INCREMENTS
    /\ NUM_THREADS > 1 /\ INCREMENTS > 1
    /\ ~ttas_locked /\ mutex = 0

\* C19 (barrier safety): for every phase p, a thread that is leaving or has
\* left its p-th call of barrier_wait (it is past the wait loop, or has
\* printed "passed barrier (phase p)") finds that every one of the
\* threshold threads has made its p-th call; this holds in each phase of
\* the reused barrier and with pthread_cond_wait returning spuriously.
\* Specification: SpecB.
InBarrierWait == {"b43", "b45", "b48", "b55", "b56", "b56w", "b60"}

Called(t, p) ==
    \/ b_phase[t] > p
    \/ b_phase[t] = p /\ b_pc[t] \in InBarrierWait \cup {"b82"}

Leaving(t, p) ==
    \/ b_phase[t] > p
    \/ b_phase[t] = p /\ b_pc[t] \in {"b60", "b82"}

C19_BarrierSafety ==
    \A p \in 0 .. NUM_PHASES - 1 :
        \A t \in BThreads :
            Leaving(t, p) => \A u \in BThreads : Called(u, p)

\* in the second phase of the reused barrier a thread that has waited is
\* leaving while another is still blocked in pthread_cond_wait
C19_Witness ==
    \E t, u \in BThreads :
        /\ b_phase[t] = 1 /\ b_pc[t] = "b82" /\ b_my_serial[t] = 1
        /\ b_phase[u] = 1 /\ b_pc[u] = "b56w" /\ u \notin b_waiting
        /\ b_serial = 2

\* C20 as stated (bounded buffer, all items produced and consumed): when
\* every producer and consumer has exited, produced_count = NUM_ITEMS,
\* consumed_count = NUM_ITEMS and bb.count = 0; and produced_count never
\* exceeds NUM_ITEMS.
\* Specification: SpecBB.
AllExited ==
    /\ \A t \in Producers : bp_pc[t] = "done"
    /\ \A t \in Consumers : bc_pc[t] = "done"

C20_AsStated ==
    /\ produced_count <= NUM_ITEMS
    /\ AllExited =>
          /\ produced_count = NUM_ITEMS
          /\ consumed_count = NUM_ITEMS
          /\ bb_count = 0

\* C21 (deadlock freedom by lock ordering): no state has each worker
\* holding one account mutex while the mutex it needs next is held by the
\* other; every call of transfer_safe returns, and both workers finish all
\* their transfers (main's joins return).
\* Specification: SpecD.
Blocked(t) ==
    /\ d_pc[t] \in {"d28", "d29"}
    /\ d_mutex[IF d_pc[t] = "d28" THEN First(t) ELSE Second(t)] \notin {{}, {t}}

HoldsOne(t) == \E a \in Accounts : d_mutex[a] = {t}

InTransfer(t) == d_pc[t] \in {"d28", "d29", "d31", "d37", "d38"}

C21_NoCycle == ~(\A t \in Accounts : HoldsOne(t) /\ Blocked(t))

C21_DeadlockFree ==
    /\ []C21_NoCycle
    /\ \A t \in Accounts : (InTransfer(t) ~> d_pc[t] = "d53")
    /\ <>(d_m_pc = "m80" /\ transfer_count = 2 * NUM_TRANSFERS)

\* the two opposite transfers contend: one worker holds both mutexes while
\* the other waits for the first of them, and both have transferred before
C21_Witness ==
    /\ d_pc[0] = "d28" /\ d_pc[1] = "d31"
    /\ d_mutex[0] = {1} /\ d_mutex[1] = {1}
    /\ d_i[0] > 0 /\ d_i[1] > 0

\* C22 (flag message passing): in the seq_cst and the acquire-release
\* version a consumer that has left its spin loop reads data == 42, and the
\* assert never fails.
\* Specification: SpecMP.
Synchronised == Versions[mp_version] \in {"seqcst", "acqrel"}

C22_ReadStep ==
    Synchronised /\ mp_c_pc = "c66" /\ mp_c_pc' # "c66" => mp_value' = 42

C22_MessagePassing ==
    /\ [](mp_c_pc # "abort")
    /\ [](Synchronised /\ mp_c_pc = "c68" => mp_value = 42)
    /\ [](Synchronised /\ mp_c_pc = "c66" =>
            \A i \in mp_view["cons"].d .. Len(mp_data) : mp_data[i] = 42)
    /\ [][C22_ReadStep]_vars

\* the acquire-release consumer has read data after a load of flag that
\* could still have returned the reset value 0
C22_Witness ==
    /\ Versions[mp_version] = "acqrel"
    /\ mp_c_pc = "done" /\ mp_value = 42 /\ mp_m_pc = "m104"
    /\ mp_flag[Len(mp_flag) - 1].val = 0

\* C23 (no lost update): after all deposit and withdraw threads are joined
\* the balance equals its starting value 1000; whenever the mutex is free
\* the balance is 1000 plus the amounts of the updates completed.
\* Specification: SpecR.
RECURSIVE Completed10(_)
Completed10(n) ==
    IF n = 0 THEN 0 ELSE Completed10(n - 1) + r_i[n - 1] * Amount(n - 1)

C23_NoLostUpdate ==
    /\ r_m_pc = "m57" => balance = 1000
    /\ balance_mutex = {} => balance = 1000 + Completed10(2 * R_NUM_THREADS)

\* the last withdrawal has read a balance that holds every deposit, while
\* the other withdraw thread waits for the mutex
C23_Witness ==
    /\ r_pc[2 * R_NUM_THREADS - 1] = "r16"
    /\ r_temp[2 * R_NUM_THREADS - 1] = 1000 + 10 * R_NUM_THREADS * TRANSACTIONS_PER_THREAD
    /\ r_pc[R_NUM_THREADS] = "r13"

\* C24 (harness liveness): with the producer and the consumer thread each
\* scheduled again and again, every retry loop around queue_enqueue gets
\* true, the consumer reaches received == NUM_MESSAGES, and both threads
\* return.
\* Specification: SpecTestFair.
C24_Terminates ==
    /\ \A i \in 0 .. NUM_MESSAGES - 1 :
          (p_pc = "h138" /\ p_i = i) ~> (p_pc = "ret" /\ p_ret /\ p_i = i)
    /\ <>(c_received = NUM_MESSAGES)
    /\ <>[](p_pc = "h144" /\ c_pc = "h167")

\* the producer has just been told Full and goes round its retry loop, the
\* consumer has been told Empty before
C24_Witness ==
    /\ p_pc = "ret" /\ ~p_ret /\ p_backoff # "pause"
    /\ c_backoff # "pause" /\ c_received > 0

\* C25 (linearizability): the histories of one producer and one consumer
\* refine a sequential FIFO queue of capacity N-1 whose state is the values
\* enqueued and not yet dequeued.  A successful enqueue takes effect at its
\* store of head, a failed one at its load of tail, a successful dequeue at
\* its store of tail, a failed one at its load of head; at that step the
\* sequential operation has the result the call returns, and no other step
\* changes the sequential queue.
\* Specification: Spec.
Abstract == SubSeq(enqueued, Len(dequeued) + 1, Len(enqueued))

C25_EnqueueStep ==
    /\ p_pc = "e112" /\ p_pc' = "e113"
          => Len(Abstract) < QUEUE_SIZE - 1 /\ Abstract' = Append(Abstract, p_value)
    /\ p_pc = "e104" /\ p_pc' = "e106" /\ p_next_head = p_tail'
          => Len(Abstract) = QUEUE_SIZE - 1 /\ Abstract' = Abstract
    /\ p_pc' = "ret" /\ p_pc # "ret"
          => p_ret' = (p_pc = "e113") /\ p_pc \in {"e107", "e113"}

C25_DequeueStep ==
    /\ c_pc = "d128" /\ c_pc' = "d129"
          => /\ Abstract # <<>>
             /\ c_value = <<Head(Abstract)>>
             /\ Abstract' = Tail(Abstract)
    /\ c_pc = "d120" /\ c_pc' = "d121" /\ c_tail = c_head'
          => Abstract = <<>> /\ Abstract' = Abstract
    /\ c_pc' = "ret" /\ c_pc # "ret"
          => c_ret' = (c_pc = "d129") /\ c_pc \in {"d122", "d129"}

C25_OtherStep ==
    Abstract' # Abstract =>
        \/ p_pc = "e112" /\ p_pc' = "e113"
        \/ c_pc = "d128" /\ c_pc' = "d129"

\* a call is on its failing path exactly when its linearization point was
\* the failed one
C25_Paths ==
    /\ p_pc \in {"e106", "e107", "e111", "e112"}
          => (p_pc = "e107" => p_next_head = p_tail)
             /\ (p_pc \in {"e111", "e112"} => p_next_head # p_tail)
    /\ c_pc \in {"d121", "d122", "d126", "d127", "d128"}
          => (c_pc = "d122" => c_head = c_tail)
             /\ (c_pc \in {"d126", "d127", "d128"} => c_head # c_tail)

C25_Linearizable ==
    /\ []C25_Paths
    /\ [][C25_EnqueueStep /\ C25_DequeueStep /\ C25_OtherStep]_vars

\* a dequeue takes effect on a full queue while an enqueue that has seen it
\* full is about to return false
C25_Witness ==
    /\ c_pc = "d129" /\ p_pc = "e107"
    /\ Len(Abstract) = QUEUE_SIZE - 2
    /\ Len(dequeued) > 1

\* C26 (no rejection with room or data): queue_enqueue returns false only
\* if the queue held exactly N-1 elements at its load of tail, and
\* queue_dequeue returns false only if it held none at its load of head; the
\* observation may be stale when the call returns.
\* Specification: Spec.
ObservedByEnqueue == (p_head - p_tail + QUEUE_SIZE) % QUEUE_SIZE
ObservedByDequeue == (c_head - c_tail + QUEUE_SIZE) % QUEUE_SIZE

C26_ObserveStep ==
    /\ p_pc = "e104" /\ p_pc' = "e106" => ObservedByEnqueue' = Resident
    /\ c_pc = "d120" /\ c_pc' = "d121" => ObservedByDequeue' = Resident
    /\ p_pc \in {"e106", "e107"} /\ p_pc' \in {"e106", "e107"}
          => ObservedByEnqueue' = ObservedByEnqueue
    /\ c_pc \in {"d121", "d122"} /\ c_pc' \in {"d121", "d122"}
          => ObservedByDequeue' = ObservedByDequeue
    /\ p_pc' = "ret" /\ p_pc # "ret" /\ ~p_ret'
          => p_pc = "e107" /\ ObservedByEnqueue = QUEUE_SIZE - 1
    /\ c_pc' = "ret" /\ c_pc # "ret" /\ ~c_ret'
          => c_pc = "d122" /\ ObservedByDequeue = 0

C26_RejectionJustified == [][C26_ObserveStep]_vars

\* a stale rejection: the enqueue is about to return false, having seen the
\* queue full, and every value has been dequeued since
C26_Witness ==
    /\ p_pc = "e107" /\ ObservedByEnqueue = QUEUE_SIZE - 1
    /\ Resident = 0 /\ c_pc = "ret" /\ c_ret

\* C27 (capacity not a power of two): with QUEUE_SIZE N >= 2 not a power of
\* two every call still returns true or false, but the cursor does not
\* visit every slot index, and from the empty queue fewer than N-1
\* consecutive enqueues succeed; with N a power of two the first rejection
\* comes after exactly N-1.
\* Specification: SpecN.
IsPow2(n) == \E k \in 0 .. n : Pow2(k) = n

Written == {i \in DOMAIN n_buffer : n_buffer[i] # <<>>}

C27_NonPowerOfTwo ==
    /\ n_ret \in BOOLEAN
    /\ n_head \in 0 .. n_size - 1
    /\ ~IsPow2(n_size)
          => /\ n_succ < n_size - 1
             /\ Cardinality(Written) < n_size - 1
             /\ n_pc = "e106" => n_next_head # n_size - 1
    /\ IsPow2(n_size) /\ n_pc = "ret" /\ ~n_ret => n_succ = n_size - 1

\* QUEUE_SIZE 3: the first enqueue into the empty queue has returned false
C27_Witness ==
    /\ n_size = 3 /\ n_pc = "ret" /\ ~n_ret /\ n_succ = 0

\* C28 (two producers): two threads calling queue_enqueue on one queue can
\* both return true while head advances by one and only one of the two
\* values is ever dequeued (the witness); no call reports an error, and in
\* every run the values dequeued are among those passed, one for each
\* position head has advanced.
\* Specification: SpecTP.
Truths == Cardinality({t \in Enqueuers : tp_ret[t]})

C28_SilentLoss ==
    /\ \A t \in Enqueuers : tp_ret[t] \in BOOLEAN
    /\ tp_head \in {1, 2} \/ (tp_head = 0 /\ Truths = 0)
    /\ \A t \in Enqueuers : tp_pc[t] = "ret" => tp_ret[t]
    /\ Len(tp_dequeued) <= tp_head
    /\ \A i \in 1 .. Len(tp_dequeued) : tp_dequeued[i] \in Enqueuers
    /\ tp_head = 1 /\ Len(tp_dequeued) = 1 => tp_head = tp_tail

\* both calls have returned true, head has advanced by one, the one
\* dequeue that succeeded returned the second thread's value and the queue
\* is empty: the first thread's value is lost
C28_Witness ==
    /\ \A t \in Enqueuers : tp_pc[t] = "ret" /\ tp_ret[t]
    /\ tp_head = 1 /\ tp_tail = 1
    /\ tp_dequeued = <<2>>

\* C29 (the capstone queue is the same queue): run statement by statement
\* under the same schedule from the same state with QUEUE_SIZE 1024,
\* spsc_enqueue / spsc_dequeue and queue_enqueue / queue_dequeue are at the
\* same statement, hold the same values in their locals, have returned the
\* same results and values, and leave the same head, tail and buffer; the
\* int locals of spsc_dequeue never hold a negative number.
\* Specification: SpecEQ.
C29_SameQueue ==
    /\ eq_head["s08"] = eq_head["q07"]
    /\ eq_tail["s08"] = eq_tail["q07"]
    /\ eq_buffer["s08"] = eq_buffer["q07"]
    /\ eq_p["s08"] = eq_p["q07"]
    /\ eq_c["s08"] = eq_c["q07"]
    /\ eq_c["s08"].tail >= 0 /\ eq_c["s08"].head >= 0 /\ eq_c["s08"].next_tail >= 0

\* a dequeue on each queue has wrapped tail from 1023 to 0 and returned the
\* value of the last slot
C29_Witness ==
    /\ \A k \in Impls : eq_c[k].pc = "ret" /\ eq_c[k].ret /\ eq_c[k].value = QUEUE_SIZE_08
    /\ \A k \in Impls : eq_tail[k] = 0
    /\ eq_calls.deq = 1

\* C30 (spinlock mutual exclusion): with each of the four hand-written
\* locks at most one worker is between the return of the lock function and
\* its unlock, also when the weak compare-exchange fails on a free lock; no
\* increment of shared_counter is lost, and once the workers are joined
\* shared_counter == NUM_THREADS * ITERATIONS.
\* Specification: SpecS.
Holders == {t \in SpinWorkers : s_pc[t] \in {"read", "write", "unlock"}}

RECURSIVE SpinDone(_)
SpinDone(n) ==
    IF n = 0 THEN 0
    ELSE SpinDone(n - 1) + s_i[n] + (IF s_pc[n] = "unlock" THEN 1 ELSE 0)

C30_MutualExclusion ==
    /\ Cardinality(Holders) <= 1
    /\ Holders # {} => s_locked
    /\ s_m_pc # "test" => s_counter = SpinDone(S_NUM_THREADS)
    /\ s_m_pc = "join" /\ (\A t \in SpinWorkers : s_pc[t] = "done")
          => s_counter = S_NUM_THREADS * ITERATIONS

\* the backoff lock: one worker holds it in its last iteration while the
\* other, which found it held, has doubled its backoff up to BACKOFF_MAX
C30_Witness ==
    /\ Kinds[s_kind] = "backoff"
    /\ s_pc[1] = "write" /\ s_i[1] = ITERATIONS - 1
    /\ s_pc[2] = "load" /\ s_backoff[2] = BACKOFF_MAX

\* C31 (spinlock progress): with every thread scheduled again and again
\* and no compare-exchange failing on a free lock for ever, whenever the
\* lock is free while a worker is inside the lock function some worker
\* acquires it, and every worker finishes its lock/unlock pairs: main, which
\* joins the workers of one lock before it tests the next, reaches its end.
\* Specification: SpecSFair.
InLock == {t \in SpinWorkers : s_pc[t] \in {"tas", "load", "cas"}}

C31_Progress ==
    /\ (~s_locked /\ InLock # {}) ~> (Holders # {})
    /\ <>[](s_m_pc = "end")

\* the lock is free and no worker has held it yet; the compare-exchange of
\* one has failed all the same, its backoff is doubled, and the other worker
\* is about to try
C31_Witness ==
    /\ Kinds[s_kind] = "backoff"
    /\ ~s_locked /\ s_i[1] = 0 /\ s_i[2] = 0
    /\ s_pc[1] = "load" /\ s_backoff[1] = 2 * BACKOFF_MIN
    /\ s_pc[2] = "cas"

\* C32 (barrier epochs): while the mutex is free count is between 0 and
\* threshold - 1; serial only ever goes up by one, in the step of the thread
\* whose arrival made count equal threshold, which is in the phase serial
\* names and sets count to 0 in the same step, and count returns to 0 in no
\* other way; count is the number of threads that arrived under the current
\* value of serial and have not been released, so a thread back for the next
\* phase is counted for that phase while threads of the previous one are still
\* on their way out; when all workers are done serial is NUM_PHASES and count
\* is 0.
\* Specification: SpecB.
Arrived == {"b48", "b55", "b56", "b56w", "b60"}

Counted == {t \in BThreads : b_pc[t] \in Arrived /\ b_my_serial[t] = b_serial}

Released == {t \in BThreads : b_pc[t] \in Arrived /\ b_my_serial[t] # b_serial}

C32_State ==
    b_m_pc # "m93" =>
        /\ b_mutex = 0 => b_count \in 0 .. b_threshold - 1
        /\ b_count = Cardinality(Counted)
        /\ \A t \in Counted : b_phase[t] = b_serial
        /\ \A t \in Released : b_my_serial[t] = b_serial - 1 /\ b_phase[t] = b_serial - 1
        /\ (\A t \in BThreads : b_pc[t] = "done") =>
               b_serial = NUM_PHASES /\ b_count = 0

C32_Step ==
    /\ b_serial' # b_serial =>
           \E t \in BThreads :
               /\ b_pc[t] = "b48" /\ b_mutex = t
               /\ b_my_serial[t] = b_serial /\ b_phase[t] = b_serial
               /\ b_count = b_threshold
               /\ b_serial' = b_serial + 1 /\ b_count' = 0
    /\ (b_count # 0 /\ b_count' = 0) => b_serial' = b_serial + 1
    /\ b_count' \in {b_count, b_count + 1, 0}

C32_Epochs == [](C32_State) /\ [][C32_Step]_vars

\* a thread has arrived for phase 1 and is counted for it while another is
\* still blocked in the pthread_cond_wait of phase 0
C32_Witness ==
    /\ \E t \in BThreads : b_pc[t] = "b56w" /\ b_my_serial[t] = 0
    /\ \E t \in BThreads : b_pc[t] = "b55" /\ b_my_serial[t] = 1
    /\ b_serial = 1 /\ b_count = 1

\* C33 (barrier liveness): with the threads scheduled fairly, no worker
\* stays inside barrier_wait for ever, blocked in pthread_cond_wait or
\* elsewhere, and in the end every worker has completed NUM_PHASES phases and
\* main has joined them all.
\* Specification: SpecBFair.
InBarrier == {"b43", "b45", "b48", "b55", "b56", "b56w", "b60"}

====
